---- MODULE Spec2Model ----
(***************************************************************************)
(* Model of yookoala/jsonrps.                                              *)
(*                                                                         *)
(*  - the per-session dispatch pipeline of defaultServer.HandleSession     *)
(*    (reader, dispatcher, invocations, writer), SetMethod and Close       *)
(*    (src/server.go), under the specifications Spec and LiveSpec;         *)
(*  - the server handshake InitializeServerSession followed by             *)
(*    Session.ReadRequest line reads over a transport that delivers the    *)
(*    byte stream in chunks (src/server.go, src/unnamed/part_005), under   *)
(*    the specification SpecHS.                                            *)
(***************************************************************************)
EXTENDS Integers, Sequences, FiniteSets, TLC

\* ------------------------------------------------------------------ bounds
\* number of lines the peer sends on one connection
MaxReqs == 2
\* capacity of reqQueue in the model (200 in the program)
QueueCap == 1
\* capacity of respQueue in the model (200 in the program)
RespQueueCap == 2

\* number of WriteHeader and Write calls made on one session
MaxCalls == 3
\* number of values sess.Headers holds
MaxValues == 2

\* number of handlers of a ServerSessionRouter
MaxHandlers == 3

\* number of messages and payloads written on one session and read back
MaxMsgs == 2

\* number of lines in the peer's reply to a client handshake
MaxReplyLines == 2
\* requests in a burst of one peer: more than the response queue holds
MaxBurst == 3

\* number of lines in the byte stream a handshake connection carries
MaxLines == 3
\* largest number of bytes one transport Read returns
MaxChunk == 2

\* --------------------------------------------------------------- constants
Sessions == {1, 2}
\* the sessions that the specification Spec runs
SpecSessions == {1}

\* method names a request can carry and SetMethod can register
MethodNames == {"test.echo", "m2"}
\* the Method values the environment registers: "echo" returns a response
\* with the request's id and the request's params as result; "other" is any
\* other Method: a call of it returns an error, returns (nil, nil), or has
\* not returned yet
MethodKinds == {"echo", "other"}
\* what SetMethod may be called with for each name; "none" is the nil Method
MethodArgs(name) == IF name = "test.echo" THEN {"none", "echo"}
                    ELSE {"none", "other"}

NoPanic == "none"
\* the nil *JSONRPCRequest / *JSONRPCResponse
NilReq == [k |-> "nil", id |-> 0, method |-> "", params |-> <<>>]
NilResp == [k |-> "nil", id |-> 0, result |-> <<>>]
\* the blank line Session.Write emits before the first payload
Terminator == [k |-> "terminator", id |-> 0, result |-> <<>>]

\* what the peer can put on the wire as one line: a request object, the
\* JSON document null, or a line that is not valid JSON
RequestLine(i, m) == [k |-> "req", id |-> i, method |-> m, params |-> <<"p", i>>]
NullLine(i) == [k |-> "null", id |-> i, method |-> "", params |-> <<>>]
GarbageLine(i) == [k |-> "garbage", id |-> i, method |-> "", params |-> <<>>]
LinesAt(i) == {RequestLine(i, m) : m \in MethodNames} \cup {NullLine(i), GarbageLine(i)}

VARIABLES
    \* ---- server (defaultServer)
    methods,          \* h.methods: name -> Method kind or "none"
    methodsLock,      \* h.methodsLock is held by a SetMethod call
    closed,           \* h.closed has been closed
    panicked,         \* NoPanic, or the runtime error that ended the process
    \* ---- per session
    hs,               \* HandleSession: "idle", "running", "returned"
    conn,             \* sess.Conn: "open", "eof" (peer finished sending), "closed"
    inbuf,            \* lines sent by the peer and not yet read
    nsent,            \* number of lines the peer has sent
    rpc,              \* reader goroutine: "idle", "read", "enqueue", and when
                      \* it has ended "readerr" (the transport failed) or
                      \* "decodeerr" (the line was not valid JSON)
    rreq,             \* the request the reader holds while reqQueue is full
    reqQueue, reqClosed,
    dpc,              \* dispatcher goroutine: "idle", "select", "wait", "done"
    methodsWG,        \* methodsWG counter
    inv,              \* running invocation goroutines
    respQueue, respClosed,
    wpc,              \* writer goroutine: "idle", "select", "exited", "failed"
    sessionDone, sessionDoneOnce,
    headerSent,       \* sess.headerSent
    written,          \* what has been written on sess.Conn
    dlog,             \* history: the dispatcher's lookups, in order
    ilog,             \* history: how the invocations ended, in order: the
                      \* Method returned an error, or its response was put
                      \* on respQueue
    \* ---- handshake (InitializeServerSession, then ReadRequest)
    hsInput,          \* the byte stream the peer sends on the connection
    hsIn,             \* the part of it the transport has not delivered yet
    hsBuf,            \* buffer of the bufio.Reader of the running ReadString
    hsLines,          \* lines ReadString returned to InitializeServerSession
    hsReqs,           \* lines ReadString returned to ReadRequest afterwards
    hsHeaders,        \* s.Headers
    hsOut,            \* bytes written on the connection
    hsClosed,         \* c.Close() was called
    hsRet,            \* "reading", or what InitializeServerSession returned:
                      \* "ok" (sess, nil), "err" (sess, err), "bad" (nil, nil)
    \* ---- ServerSessionRouter and the handlers it holds
    rtHandlers,       \* the router r: a sequence of handlers
    rtHeaders,        \* session.Headers of the session passed to the router
    rtOp,             \* "idle", the running method "can" / "handle", "done"
    rtPos,            \* index of the handler the range loop is at
    rtProbed,         \* history: the CanHandleSession calls made on handlers
    rtHandled,        \* history: the HandleSession calls made on handlers
    rtRet,            \* what the router's method returned
    rtOut,            \* bytes written on session.Conn
    rtClosed,         \* session.Conn.Close() was called
    \* ---- Session: WriteHeader and Write
    seHeaders,        \* sess.Headers
    seHeaderSent,     \* sess.headerSent
    seConn,           \* sess.Conn: "open" or "closed"
    seOut,            \* bytes written on sess.Conn
    seLog,            \* history: the calls made on the session, with what
                      \* each wrote and returned
    \* ---- Session: WriteRequest / WriteResponse read back by ReadRequest /
    \* ---- ReadResponse on the peer's session
    wiKind,           \* "request" or "response": the methods that are used
    wiItems,          \* what the writing side sends, in order
    wiPos,            \* bytes of the stream the transport has delivered
    wiBuf,            \* buffer of the bufio.Reader of the running read call
    wiReads,          \* history: what each ReadRequest / ReadResponse call
                      \* consumed and returned
    \* ---- InitializeClientSession
    clSent,           \* the header map h as the caller supplied it
    clLocal,          \* sess.LocalHeaders, which is the caller's map h
    clRemote,         \* sess.RemoteHeaders
    clLatch,          \* sess.headerSent
    clInput,          \* the bytes of the peer's reply
    clIn,             \* bytes of the reply the transport has yet to deliver
    clBuf,            \* buffer of the bufio.Reader of the running ReadString
    clLines,          \* history: the lines ReadString returned
    clOut,            \* bytes written on the connection
    clClosed,         \* the connection was closed
    clRet             \* "start", "reading", or what the call returned:
                      \* "ok" (sess, nil), "invalid" (sess, invalid signature)

svars == <<methods, methodsLock, closed, panicked>>
pvars == <<hs, conn, inbuf, nsent, rpc, rreq, reqQueue, reqClosed, dpc,
           methodsWG, inv, respQueue, respClosed, wpc, sessionDone,
           sessionDoneOnce, headerSent, written, dlog, ilog>>
hvars == <<hsInput, hsIn, hsBuf, hsLines, hsReqs, hsHeaders, hsOut, hsClosed, hsRet>>
rvars == <<rtHandlers, rtHeaders, rtOp, rtPos, rtProbed, rtHandled, rtRet,
           rtOut, rtClosed>>
wvars == <<seHeaders, seHeaderSent, seConn, seOut, seLog>>
ivars == <<wiKind, wiItems, wiPos, wiBuf, wiReads>>
cvars == <<clSent, clLocal, clRemote, clLatch, clInput, clIn, clBuf, clLines,
           clOut, clClosed, clRet>>
avars == <<rvars, wvars, ivars, cvars>>
\* what the actions of one component leave unchanged
notRouter == <<svars, pvars, hvars, wvars, ivars, cvars>>
notSession == <<svars, pvars, hvars, rvars, ivars, cvars>>
notWire == <<svars, pvars, hvars, rvars, wvars, cvars>>
notClient == <<svars, pvars, hvars, rvars, wvars, ivars>>
vars == <<svars, pvars, hvars, avars>>

\* ------------------------------------------------------------------ helpers
Upd(f, s, v) == [f EXCEPT ![s] = v]

Live == panicked = NoPanic

\* close(sessionDone): closing a closed channel is a run-time panic
CloseSessionDone(s) ==
    IF sessionDone[s]
    THEN /\ panicked' = "cleanUp: close of closed channel"
         /\ UNCHANGED sessionDone
    ELSE /\ sessionDone' = Upd(sessionDone, s, TRUE)
         /\ UNCHANGED panicked

\* a cleanUp without the sync.Once: close(sessionDone) on every call
cleanUpNoOnce(s) ==
    /\ sessionDoneOnce' = Upd(sessionDoneOnce, s, TRUE)
    /\ CloseSessionDone(s)

\* a cleanUp on a sessionDone channel that all sessions of the server share
cleanUpShared(s) ==
    /\ sessionDoneOnce' = Upd(sessionDoneOnce, s, TRUE)
    /\ IF sessionDoneOnce[s]
       THEN UNCHANGED <<sessionDone, panicked>>
       ELSE /\ sessionDone' = [t \in Sessions |-> TRUE]
            /\ UNCHANGED panicked

\* the cleanUp closure: sessionDoneOnce.Do(func() { close(sessionDone) })
cleanUp(s) ==
    /\ sessionDoneOnce' = Upd(sessionDoneOnce, s, TRUE)
    /\ IF sessionDoneOnce[s]
       THEN UNCHANGED <<sessionDone, panicked>>
       ELSE CloseSessionDone(s)

\* json.Unmarshal of one line into a *JSONRPCRequest: the document null
\* leaves the pointer nil and reports no error
DecodeOK(line) == line.k # "garbage"
DecodeRequest(line) == IF line.k = "null" THEN NilReq ELSE line

\* json.Marshal of a *JSONRPCResponse: a nil pointer marshals to null
MarshalResponse(resp) ==
    IF resp.k = "nil"
    THEN [k |-> "json-null", id |-> 0, result |-> <<>>]
    ELSE [k |-> "json", id |-> resp.id, result |-> resp.result]

\* What is left on the transport after ReadRequest took the first line:
\* ReadRequest wraps sess.Conn in a new bufio.Reader on every call, so the
\* bytes the transport delivered after the first newline in the same read
\* are dropped with that reader.  j whole lines are lost; if cut, the loss
\* also ends inside the following line, whose rest is then not valid JSON.
AfterRead(buf, j, cut) ==
    LET rest == Tail(buf)
        kept == SubSeq(rest, j + 1, Len(rest))
    IN  IF cut /\ kept # <<>>
        THEN <<GarbageLine(kept[1].id)>> \o Tail(kept)
        ELSE kept

\* the Method bodies the environment registers
MethodOutcomes(m) == IF m = "echo" THEN {"response"} ELSE {"error", "nil"}
MethodResult(m, req, out) ==
    IF out = "response"
    THEN [k |-> "resp", id |-> req.id, result |-> req.params]
    ELSE NilResp

\* ---------------------------------------------------------------- server
\* a SetMethod without the nil check: the nil Method is stored
SetMethodMapStoreNil(name, m) ==
    [methods EXCEPT ![name] = IF m = "none" THEN "nil" ELSE m]

\* the registry after SetMethod(name, m)
SetMethodMap(name, m) ==
    IF m = "none"
    THEN [methods EXCEPT ![name] = "none"]
    ELSE [methods EXCEPT ![name] = m]

\* SetMethod: Lock, delete / store, the deferred Unlock
SetMethod(name, m) ==
    /\ Live
    /\ ~methodsLock
    /\ methods' = SetMethodMap(name, m)
    /\ methodsLock' = FALSE
    /\ UNCHANGED <<closed, panicked, pvars, hvars, avars>>

\* Close: close(h.closed)
Close ==
    /\ Live
    /\ IF closed
       THEN /\ panicked' = "Close: close of closed channel"
            /\ UNCHANGED closed
       ELSE /\ closed' = TRUE
            /\ UNCHANGED panicked
    /\ UNCHANGED <<methods, methodsLock, pvars, hvars, avars>>

\* ------------------------------------------------------------- environment
\* the peer sends the next request of a burst of calls of "test.echo"
PeerSendBurst(s) ==
    /\ Live
    /\ conn[s] = "open"
    /\ nsent[s] < MaxBurst
    /\ inbuf' = Upd(inbuf, s, Append(inbuf[s], RequestLine(nsent[s] + 1, "test.echo")))
    /\ nsent' = Upd(nsent, s, nsent[s] + 1)
    /\ UNCHANGED <<svars, hs, conn, rpc, rreq, reqQueue, reqClosed, dpc,
                   methodsWG, inv, respQueue, respClosed, wpc, sessionDone,
                   sessionDoneOnce, headerSent, written, dlog, ilog, hvars, avars>>

\* the peer of session s sends its one request, a call of "test.echo" that
\* carries the number of the session as id and in its params
PeerSendOwn(s) ==
    /\ Live
    /\ conn[s] = "open"
    /\ nsent[s] = 0
    /\ inbuf' = Upd(inbuf, s, Append(inbuf[s], RequestLine(s, "test.echo")))
    /\ nsent' = Upd(nsent, s, 1)
    /\ UNCHANGED <<svars, hs, conn, rpc, rreq, reqQueue, reqClosed, dpc,
                   methodsWG, inv, respQueue, respClosed, wpc, sessionDone,
                   sessionDoneOnce, headerSent, written, dlog, ilog, hvars, avars>>

PeerSend(s, line) ==
    /\ Live
    /\ conn[s] = "open"
    /\ nsent[s] < MaxReqs
    /\ line \in LinesAt(nsent[s] + 1)
    /\ inbuf' = Upd(inbuf, s, Append(inbuf[s], line))
    /\ nsent' = Upd(nsent, s, nsent[s] + 1)
    /\ UNCHANGED <<svars, hs, conn, rpc, rreq, reqQueue, reqClosed, dpc,
                   methodsWG, inv, respQueue, respClosed, wpc, sessionDone,
                   sessionDoneOnce, headerSent, written, dlog, ilog, hvars, avars>>

\* the peer ends its stream: what it sent stays readable, then EOF
PeerEOF(s) ==
    /\ Live
    /\ conn[s] = "open"
    /\ conn' = Upd(conn, s, "eof")
    /\ UNCHANGED <<svars, hs, inbuf, nsent, rpc, rreq, reqQueue, reqClosed,
                   dpc, methodsWG, inv, respQueue, respClosed, wpc,
                   sessionDone, sessionDoneOnce, headerSent, written, dlog, ilog,
                   hvars, avars>>

\* the connection is closed (Conn.Close, or the transport fails): every
\* later read and write fails
ConnClose(s) ==
    /\ Live
    /\ conn[s] # "closed"
    /\ conn' = Upd(conn, s, "closed")
    /\ UNCHANGED <<svars, hs, inbuf, nsent, rpc, rreq, reqQueue, reqClosed,
                   dpc, methodsWG, inv, respQueue, respClosed, wpc,
                   sessionDone, sessionDoneOnce, headerSent, written, dlog, ilog,
                   hvars, avars>>

\* ----------------------------------------------------------- HandleSession
HandleSessionStart(s) ==
    /\ Live
    /\ hs[s] = "idle"
    /\ hs' = Upd(hs, s, "running")
    /\ rpc' = Upd(rpc, s, "read")
    /\ dpc' = Upd(dpc, s, "select")
    /\ wpc' = Upd(wpc, s, "select")
    /\ UNCHANGED <<svars, conn, inbuf, nsent, rreq, reqQueue, reqClosed,
                   methodsWG, inv, respQueue, respClosed, sessionDone,
                   sessionDoneOnce, headerSent, written, dlog, ilog, hvars, avars>>

\* <-sessionDone
HandleSessionReturn(s) ==
    /\ Live
    /\ hs[s] = "running"
    /\ sessionDone[s]
    /\ hs' = Upd(hs, s, "returned")
    /\ UNCHANGED <<svars, conn, inbuf, nsent, rpc, rreq, reqQueue, reqClosed,
                   dpc, methodsWG, inv, respQueue, respClosed, wpc,
                   sessionDone, sessionDoneOnce, headerSent, written, dlog, ilog,
                   hvars, avars>>

\* ------------------------------------------------------------------ reader
\* a reader that skips a line it cannot decode and reads on
ReaderReadSkips(s, j, cut) ==
    /\ Live
    /\ rpc[s] = "read"
    /\ conn[s] # "closed"
    /\ inbuf[s] # <<>>
    /\ j \in 0..(Len(inbuf[s]) - 1)
    /\ cut \in BOOLEAN
    /\ cut => j < Len(inbuf[s]) - 1
    /\ inbuf' = Upd(inbuf, s, AfterRead(inbuf[s], j, cut))
    /\ LET line == Head(inbuf[s]) IN
       IF DecodeOK(line)
       THEN /\ IF Len(reqQueue[s]) < QueueCap
               THEN /\ reqQueue' = Upd(reqQueue, s, Append(reqQueue[s], DecodeRequest(line)))
                    /\ UNCHANGED <<rpc, rreq>>
               ELSE /\ rpc' = Upd(rpc, s, "enqueue")
                    /\ rreq' = Upd(rreq, s, DecodeRequest(line))
                    /\ UNCHANGED reqQueue
            /\ UNCHANGED <<reqClosed, sessionDone, sessionDoneOnce, panicked>>
       ELSE UNCHANGED <<reqQueue, rreq, rpc, reqClosed, sessionDone,
                        sessionDoneOnce, panicked>>
    /\ UNCHANGED <<methods, methodsLock, closed, hs, conn, nsent, dpc,
                   methodsWG, inv, respQueue, respClosed, wpc, headerSent,
                   written, dlog, ilog, hvars, avars>>

\* ReadRequest returns a line; a decoded request goes to reqQueue (the send
\* blocks while the queue is full), a decode error ends the reader
ReaderRead(s, j, cut) ==
    /\ Live
    /\ rpc[s] = "read"
    /\ conn[s] # "closed"
    /\ inbuf[s] # <<>>
    /\ j \in 0..(Len(inbuf[s]) - 1)
    /\ cut \in BOOLEAN
    /\ cut => j < Len(inbuf[s]) - 1
    /\ inbuf' = Upd(inbuf, s, AfterRead(inbuf[s], j, cut))
    /\ LET line == Head(inbuf[s]) IN
       IF DecodeOK(line)
       THEN /\ IF Len(reqQueue[s]) < QueueCap
               THEN /\ reqQueue' = Upd(reqQueue, s, Append(reqQueue[s], DecodeRequest(line)))
                    /\ UNCHANGED <<rpc, rreq>>
               ELSE /\ rpc' = Upd(rpc, s, "enqueue")
                    /\ rreq' = Upd(rreq, s, DecodeRequest(line))
                    /\ UNCHANGED reqQueue
            /\ UNCHANGED <<reqClosed, sessionDone, sessionDoneOnce, panicked>>
       ELSE /\ cleanUp(s)
            /\ reqClosed' = Upd(reqClosed, s, TRUE)
            /\ rpc' = Upd(rpc, s, "decodeerr")
            /\ UNCHANGED <<reqQueue, rreq>>
    /\ UNCHANGED <<methods, methodsLock, closed, hs, conn, nsent, dpc,
                   methodsWG, inv, respQueue, respClosed, wpc, headerSent,
                   written, dlog, ilog, hvars, avars>>

\* ReadRequest fails on the transport: cleanUp(), return, close(reqQueue)
ReaderReadErr(s) ==
    /\ Live
    /\ rpc[s] = "read"
    /\ conn[s] = "closed" \/ (conn[s] = "eof" /\ inbuf[s] = <<>>)
    /\ cleanUp(s)
    /\ reqClosed' = Upd(reqClosed, s, TRUE)
    /\ rpc' = Upd(rpc, s, "readerr")
    /\ UNCHANGED <<methods, methodsLock, closed, hs, conn, inbuf, nsent, rreq,
                   reqQueue, dpc, methodsWG, inv, respQueue, respClosed, wpc,
                   headerSent, written, dlog, ilog, hvars, avars>>

\* a reader that gives up the request it holds once the queue has room
ReaderEnqueueDrops(s) ==
    /\ Live
    /\ rpc[s] = "enqueue"
    /\ Len(reqQueue[s]) < QueueCap
    /\ rreq' = Upd(rreq, s, NilReq)
    /\ rpc' = Upd(rpc, s, "read")
    /\ UNCHANGED <<svars, hs, conn, inbuf, nsent, reqQueue, reqClosed, dpc,
                   methodsWG, inv, respQueue, respClosed, wpc, sessionDone,
                   sessionDoneOnce, headerSent, written, dlog, ilog, hvars, avars>>

\* reqQueue <- req completes once the queue has room
ReaderEnqueue(s) ==
    /\ Live
    /\ rpc[s] = "enqueue"
    /\ Len(reqQueue[s]) < QueueCap
    /\ reqQueue' = Upd(reqQueue, s, Append(reqQueue[s], rreq[s]))
    /\ rreq' = Upd(rreq, s, NilReq)
    /\ rpc' = Upd(rpc, s, "read")
    /\ UNCHANGED <<svars, hs, conn, inbuf, nsent, reqClosed, dpc, methodsWG,
                   inv, respQueue, respClosed, wpc, sessionDone,
                   sessionDoneOnce, headerSent, written, dlog, ilog, hvars, avars>>

\* -------------------------------------------------------------- dispatcher
\* case <-sessionDone: return
DispatchSessionDone(s) ==
    /\ Live
    /\ dpc[s] = "select"
    /\ sessionDone[s]
    /\ dpc' = Upd(dpc, s, "wait")
    /\ UNCHANGED <<svars, hs, conn, inbuf, nsent, rpc, rreq, reqQueue,
                   reqClosed, methodsWG, inv, respQueue, respClosed, wpc,
                   sessionDone, sessionDoneOnce, headerSent, written, dlog, ilog,
                   hvars, avars>>

\* case <-h.closed: return
DispatchServerClosed(s) ==
    /\ Live
    /\ dpc[s] = "select"
    /\ closed
    /\ dpc' = Upd(dpc, s, "wait")
    /\ UNCHANGED <<svars, hs, conn, inbuf, nsent, rpc, rreq, reqQueue,
                   reqClosed, methodsWG, inv, respQueue, respClosed, wpc,
                   sessionDone, sessionDoneOnce, headerSent, written, dlog, ilog,
                   hvars, avars>>

\* case req, ok := <-reqQueue with !ok: return
DispatchQueueClosed(s) ==
    /\ Live
    /\ dpc[s] = "select"
    /\ reqQueue[s] = <<>>
    /\ reqClosed[s]
    /\ dpc' = Upd(dpc, s, "wait")
    /\ UNCHANGED <<svars, hs, conn, inbuf, nsent, rpc, rreq, reqQueue,
                   reqClosed, methodsWG, inv, respQueue, respClosed, wpc,
                   sessionDone, sessionDoneOnce, headerSent, written, dlog, ilog,
                   hvars, avars>>

\* the invocation goroutine started for req with the Method m
NewInvocation(req, m) == [req |-> req, m |-> m, st |-> "call", resp |-> NilResp]

\* h.methods[req.Method], read without taking methodsLock
Lookup(req) == methods[req.method]

\* a dispatcher that ends the session when the method is not registered
DispatchRequestUnknownEnds(s) ==
    /\ Live
    /\ dpc[s] = "select"
    /\ reqQueue[s] # <<>>
    /\ reqQueue' = Upd(reqQueue, s, Tail(reqQueue[s]))
    /\ LET req == Head(reqQueue[s]) IN
       IF req.k = "nil"
       THEN /\ panicked' = "dispatcher: nil pointer dereference"
            /\ UNCHANGED <<methodsWG, inv, dlog, ilog, dpc, sessionDone, sessionDoneOnce>>
       ELSE /\ dlog' = Upd(dlog, s, Append(dlog[s],
                           [id |-> req.id, method |-> req.method, m |-> Lookup(req)]))
            /\ IF Lookup(req) # "none"
               THEN /\ methodsWG' = Upd(methodsWG, s, methodsWG[s] + 1)
                    /\ inv' = Upd(inv, s, inv[s] \cup {NewInvocation(req, Lookup(req))})
                    /\ UNCHANGED <<dpc, sessionDone, sessionDoneOnce, panicked>>
               ELSE /\ cleanUp(s)
                    /\ dpc' = Upd(dpc, s, "wait")
                    /\ UNCHANGED <<methodsWG, inv>>
    /\ UNCHANGED <<methods, methodsLock, closed, hs, conn, inbuf, nsent, rpc,
                   rreq, reqClosed, respQueue, respClosed, wpc,
                   headerSent, written, ilog, hvars, avars>>

\* a dispatcher that calls the Method itself instead of starting a goroutine
\* for it: it takes no request while a Method is running
DispatchRequestInline(s) ==
    /\ \A v \in inv[s] : v.st # "call"
    /\ Live
    /\ dpc[s] = "select"
    /\ reqQueue[s] # <<>>
    /\ reqQueue' = Upd(reqQueue, s, Tail(reqQueue[s]))
    /\ LET req == Head(reqQueue[s]) IN
       IF req.k = "nil"
       THEN /\ panicked' = "dispatcher: nil pointer dereference"
            /\ UNCHANGED <<methodsWG, inv, dlog, ilog>>
       ELSE /\ dlog' = Upd(dlog, s, Append(dlog[s],
                           [id |-> req.id, method |-> req.method, m |-> Lookup(req)]))
            /\ IF Lookup(req) # "none"
               THEN /\ methodsWG' = Upd(methodsWG, s, methodsWG[s] + 1)
                    /\ inv' = Upd(inv, s, inv[s] \cup {NewInvocation(req, Lookup(req))})
               ELSE UNCHANGED <<methodsWG, inv>>
            /\ UNCHANGED panicked
    /\ UNCHANGED <<methods, methodsLock, closed, hs, conn, inbuf, nsent, rpc,
                   rreq, reqClosed, dpc, respQueue, respClosed, wpc,
                   sessionDone, sessionDoneOnce, headerSent, written, ilog,
                   hvars, avars>>

\* case req, ok := <-reqQueue with ok: req.Method of a nil request is a nil
\* pointer dereference; otherwise look the method up and, if it is there,
\* methodsWG.Add(1) and start the invocation
DispatchRequest(s) ==
    /\ Live
    /\ dpc[s] = "select"
    /\ reqQueue[s] # <<>>
    /\ reqQueue' = Upd(reqQueue, s, Tail(reqQueue[s]))
    /\ LET req == Head(reqQueue[s]) IN
       IF req.k = "nil"
       THEN /\ panicked' = "dispatcher: nil pointer dereference"
            /\ UNCHANGED <<methodsWG, inv, dlog, ilog>>
       ELSE /\ dlog' = Upd(dlog, s, Append(dlog[s],
                           [id |-> req.id, method |-> req.method, m |-> Lookup(req)]))
            /\ IF Lookup(req) # "none"
               THEN /\ methodsWG' = Upd(methodsWG, s, methodsWG[s] + 1)
                    /\ inv' = Upd(inv, s, inv[s] \cup {NewInvocation(req, Lookup(req))})
               ELSE UNCHANGED <<methodsWG, inv>>
            /\ UNCHANGED panicked
    /\ UNCHANGED <<methods, methodsLock, closed, hs, conn, inbuf, nsent, rpc,
                   rreq, reqClosed, dpc, respQueue, respClosed, wpc,
                   sessionDone, sessionDoneOnce, headerSent, written, ilog,
                   hvars, avars>>

\* the dispatcher's map read takes no lock: when it overlaps the map write
\* of a SetMethod call made by another goroutine, which holds methodsLock,
\* the Go runtime may abort the process with "concurrent map read and map
\* write" before the write is visible
DispatchRaceAbort(s) ==
    /\ Live
    /\ ~methodsLock
    /\ dpc[s] = "select"
    /\ reqQueue[s] # <<>>
    /\ Head(reqQueue[s]).k # "nil"
    /\ methodsLock' = TRUE
    /\ panicked' = "dispatcher: concurrent map read and map write"
    /\ UNCHANGED <<methods, closed, pvars, hvars, avars>>

\* a deferred function that closes respQueue without methodsWG.Wait()
DispatchWaitNoWait(s) ==
    /\ Live
    /\ dpc[s] = "wait"
    /\ IF respClosed[s]
       THEN /\ panicked' = "dispatcher: close of closed channel"
            /\ UNCHANGED respClosed
       ELSE /\ respClosed' = Upd(respClosed, s, TRUE)
            /\ UNCHANGED panicked
    /\ dpc' = Upd(dpc, s, "done")
    /\ UNCHANGED <<methods, methodsLock, closed, hs, conn, inbuf, nsent, rpc,
                   rreq, reqQueue, reqClosed, methodsWG, inv, respQueue, wpc,
                   sessionDone, sessionDoneOnce, headerSent, written, dlog, ilog,
                   hvars, avars>>

\* the deferred function: methodsWG.Wait(), then close(respQueue)
DispatchWait(s) ==
    /\ Live
    /\ dpc[s] = "wait"
    /\ methodsWG[s] = 0
    /\ IF respClosed[s]
       THEN /\ panicked' = "dispatcher: close of closed channel"
            /\ UNCHANGED respClosed
       ELSE /\ respClosed' = Upd(respClosed, s, TRUE)
            /\ UNCHANGED panicked
    /\ dpc' = Upd(dpc, s, "done")
    /\ UNCHANGED <<methods, methodsLock, closed, hs, conn, inbuf, nsent, rpc,
                   rreq, reqQueue, reqClosed, methodsWG, inv, respQueue, wpc,
                   sessionDone, sessionDoneOnce, headerSent, written, dlog, ilog,
                   hvars, avars>>

\* -------------------------------------------------------------- invocation
\* the entry of ilog for the invocation v ending with the outcome out
Ended(v, out) == [id |-> v.req.id, out |-> out, resp |-> v.resp]

\* an invocation that ends without methodsWG.Done()
InvocationEndNoDone(s, v) ==
    /\ inv' = Upd(inv, s, inv[s] \ {v})
    /\ UNCHANGED methodsWG

\* the invocation ends: the deferred methodsWG.Done()
InvocationEnd(s, v) ==
    /\ inv' = Upd(inv, s, inv[s] \ {v})
    /\ methodsWG' = Upd(methodsWG, s, methodsWG[s] - 1)

\* an invocation that ends the session when the Method returns an error
InvokeReturnErrorEnds(s, v, out) ==
    /\ Live
    /\ v \in inv[s]
    /\ v.st = "call"
    /\ out \in MethodOutcomes(v.m)
    /\ IF out = "error"
       THEN /\ InvocationEnd(s, v)
            /\ ilog' = Upd(ilog, s, Append(ilog[s], Ended(v, "error")))
            /\ cleanUp(s)
       ELSE /\ inv' = Upd(inv, s, (inv[s] \ {v}) \cup
                          {[v EXCEPT !.st = "send", !.resp = MethodResult(v.m, v.req, out)]})
            /\ UNCHANGED <<methodsWG, ilog, sessionDone, sessionDoneOnce, panicked>>
    /\ UNCHANGED <<methods, methodsLock, closed, hs, conn, inbuf, nsent, rpc,
                   rreq, reqQueue, reqClosed, dpc, respQueue, respClosed, wpc,
                   headerSent, written, dlog, hvars, avars>>

\* resp, err := m(ctx, request); on err log and return
InvokeReturn(s, v, out) ==
    /\ Live
    /\ v \in inv[s]
    /\ v.st = "call"
    /\ out \in MethodOutcomes(v.m)
    /\ IF out = "error"
       THEN /\ InvocationEnd(s, v)
            /\ ilog' = Upd(ilog, s, Append(ilog[s], Ended(v, "error")))
       ELSE /\ inv' = Upd(inv, s, (inv[s] \ {v}) \cup
                          {[v EXCEPT !.st = "send", !.resp = MethodResult(v.m, v.req, out)]})
            /\ UNCHANGED <<methodsWG, ilog>>
    /\ UNCHANGED <<svars, hs, conn, inbuf, nsent, rpc, rreq, reqQueue,
                   reqClosed, dpc, respQueue, respClosed, wpc, sessionDone,
                   sessionDoneOnce, headerSent, written, dlog, hvars, avars>>

\* case respQueue <- resp (a send on a closed channel is a run-time panic)
InvokeSend(s, v) ==
    /\ Live
    /\ v \in inv[s]
    /\ v.st = "send"
    /\ respClosed[s] \/ Len(respQueue[s]) < RespQueueCap
    /\ IF respClosed[s]
       THEN /\ panicked' = "invocation: send on closed channel"
            /\ UNCHANGED <<respQueue, inv, methodsWG, ilog>>
       ELSE /\ respQueue' = Upd(respQueue, s, Append(respQueue[s], v.resp))
            /\ InvocationEnd(s, v)
            /\ ilog' = Upd(ilog, s, Append(ilog[s], Ended(v, "enqueued")))
            /\ UNCHANGED panicked
    /\ UNCHANGED <<methods, methodsLock, closed, hs, conn, inbuf, nsent, rpc,
                   rreq, reqQueue, reqClosed, dpc, respClosed, wpc,
                   sessionDone, sessionDoneOnce, headerSent, written, dlog,
                   hvars, avars>>

\* a select without the sessionDone case
InvokeSessionDoneMissing(s, v) ==
    /\ FALSE
    /\ UNCHANGED vars

\* case <-sessionDone: the response is abandoned
InvokeSessionDone(s, v) ==
    /\ Live
    /\ v \in inv[s]
    /\ v.st = "send"
    /\ sessionDone[s]
    /\ InvocationEnd(s, v)
    /\ UNCHANGED <<svars, hs, conn, inbuf, nsent, rpc, rreq, reqQueue,
                   reqClosed, dpc, respQueue, respClosed, wpc, sessionDone,
                   sessionDoneOnce, headerSent, written, dlog, ilog, hvars, avars>>

\* case <-h.closed: the response is abandoned
InvokeServerClosed(s, v) ==
    /\ Live
    /\ v \in inv[s]
    /\ v.st = "send"
    /\ closed
    /\ InvocationEnd(s, v)
    /\ UNCHANGED <<svars, hs, conn, inbuf, nsent, rpc, rreq, reqQueue,
                   reqClosed, dpc, respQueue, respClosed, wpc, sessionDone,
                   sessionDoneOnce, headerSent, written, dlog, ilog, hvars, avars>>

\* ------------------------------------------------------------------ writer
\* case <-sessionDone: return
WriterSessionDone(s) ==
    /\ Live
    /\ wpc[s] = "select"
    /\ sessionDone[s]
    /\ wpc' = Upd(wpc, s, "exited")
    /\ UNCHANGED <<svars, hs, conn, inbuf, nsent, rpc, rreq, reqQueue,
                   reqClosed, dpc, methodsWG, inv, respQueue, respClosed,
                   sessionDone, sessionDoneOnce, headerSent, written, dlog, ilog,
                   hvars, avars>>

\* case <-h.closed: return
WriterServerClosed(s) ==
    /\ Live
    /\ wpc[s] = "select"
    /\ closed
    /\ wpc' = Upd(wpc, s, "exited")
    /\ UNCHANGED <<svars, hs, conn, inbuf, nsent, rpc, rreq, reqQueue,
                   reqClosed, dpc, methodsWG, inv, respQueue, respClosed,
                   sessionDone, sessionDoneOnce, headerSent, written, dlog, ilog,
                   hvars, avars>>

\* case resp, ok := <-respQueue with !ok: return
WriterQueueClosed(s) ==
    /\ Live
    /\ wpc[s] = "select"
    /\ respQueue[s] = <<>>
    /\ respClosed[s]
    /\ wpc' = Upd(wpc, s, "exited")
    /\ UNCHANGED <<svars, hs, conn, inbuf, nsent, rpc, rreq, reqQueue,
                   reqClosed, dpc, methodsWG, inv, respQueue, respClosed,
                   sessionDone, sessionDoneOnce, headerSent, written, dlog, ilog,
                   hvars, avars>>

\* what Session.Write(p) puts on a working connection: the blank line first
\* if the header was not sent yet, then p
SessionWrite(sent, p) == IF sent THEN <<p>> ELSE <<Terminator, p>>

\* a writer that takes the newest response of the queue instead of the oldest
WriterWriteNewest(s) ==
    /\ Live
    /\ wpc[s] = "select"
    /\ respQueue[s] # <<>>
    /\ respQueue' = Upd(respQueue, s, SubSeq(respQueue[s], 1, Len(respQueue[s]) - 1))
    /\ headerSent' = Upd(headerSent, s, TRUE)
    /\ IF conn[s] = "closed"
       THEN /\ cleanUp(s)
            /\ wpc' = Upd(wpc, s, "failed")
            /\ UNCHANGED written
       ELSE /\ written' = Upd(written, s, written[s] \o
                    SessionWrite(headerSent[s],
                                 MarshalResponse(respQueue[s][Len(respQueue[s])])))
            /\ UNCHANGED <<wpc, sessionDone, sessionDoneOnce, panicked>>
    /\ UNCHANGED <<methods, methodsLock, closed, hs, conn, inbuf, nsent, rpc,
                   rreq, reqQueue, reqClosed, dpc, methodsWG, inv, respClosed,
                   dlog, ilog, hvars, avars>>

\* case resp, ok := <-respQueue with ok: sess.WriteResponse(resp); on a
\* write error cleanUp() and return
WriterWrite(s) ==
    /\ Live
    /\ wpc[s] = "select"
    /\ respQueue[s] # <<>>
    /\ respQueue' = Upd(respQueue, s, Tail(respQueue[s]))
    /\ headerSent' = Upd(headerSent, s, TRUE)
    /\ IF conn[s] = "closed"
       THEN /\ cleanUp(s)
            /\ wpc' = Upd(wpc, s, "failed")
            /\ UNCHANGED written
       ELSE /\ written' = Upd(written, s, written[s] \o
                    SessionWrite(headerSent[s], MarshalResponse(Head(respQueue[s]))))
            /\ UNCHANGED <<wpc, sessionDone, sessionDoneOnce, panicked>>
    /\ UNCHANGED <<methods, methodsLock, closed, hs, conn, inbuf, nsent, rpc,
                   rreq, reqQueue, reqClosed, dpc, methodsWG, inv, respClosed,
                   dlog, ilog, hvars, avars>>

\* --------------------------------------------------------------- handshake
CR == "\r"
LF == "\n"
SP == " "
LowerOf == [c \in {"A", "B", "X", "Y"} |->
              IF c = "A" THEN "a" ELSE IF c = "B" THEN "b" ELSE IF c = "X" THEN "x" ELSE "y"]
UpperOf == [c \in {"a", "b", "x", "y"} |->
              IF c = "a" THEN "A" ELSE IF c = "b" THEN "B" ELSE IF c = "x" THEN "X" ELSE "Y"]
ToUpper(c) == IF c \in DOMAIN UpperOf THEN UpperOf[c] ELSE c
ToLower(c) == IF c \in DOMAIN LowerOf THEN LowerOf[c] ELSE c
\* bytes allowed in a header field name (letters and "-" among the bytes used)
ValidHeaderFieldByte(c) == c \in DOMAIN UpperOf \cup DOMAIN LowerOf \cup {"-"}
WhiteSpace == {SP, CR, LF, "\t"}

DefaultProtocolSignature == <<"JSONRPS/1.0">>
BadRequest == DefaultProtocolSignature \o <<SP, "400", SP, "Bad Request", CR, LF, CR, LF>>

\* the header lines and blank lines a peer sends
HSLineSet == {
    <<"a", ":", SP, "x", CR, LF>>,
    <<"A", ":", SP, "y", SP, LF>>,
    <<"a", "-", "b", ":", SP, SP, "x", LF>>,
    <<"a", SP, "b", ":", SP, "x", ":", SP, "y", LF>>,
    <<"a", ":", "x", CR, LF>>,
    <<"a", "x", LF>>,
    <<LF>>,
    <<CR, LF>> }

RECURSIVE Flatten(_)
Flatten(ls) == IF ls = <<>> THEN <<>> ELSE Head(ls) \o Flatten(Tail(ls))

SeqsUpTo(S, n) == UNION {[1..k -> S] : k \in 0..n}
HSInputs == {Flatten(ls) : ls \in SeqsUpTo(HSLineSet, MaxLines)}

EmptyHeader == [k \in {} |-> <<>>]

\* index of the first LF in b, 0 if there is none
FirstLF(b) == IF \E i \in 1..Len(b) : b[i] = LF
              THEN CHOOSE i \in 1..Len(b) : b[i] = LF /\ \A j \in 1..(i - 1) : b[j] # LF
              ELSE 0

\* a split on ":" alone
SepIndexColon(line) ==
    IF \E i \in 1..Len(line) : line[i] = ":"
    THEN CHOOSE i \in 1..Len(line) :
            line[i] = ":" /\ \A j \in 1..(i - 1) : line[j] # ":"
    ELSE 0

\* strings.SplitN(line, ": ", 2): index of the first ": ", 0 if there is none
SepIndex(line) ==
    IF \E i \in 1..(Len(line) - 1) : line[i] = ":" /\ line[i + 1] = SP
    THEN CHOOSE i \in 1..(Len(line) - 1) :
            /\ line[i] = ":" /\ line[i + 1] = SP
            /\ \A j \in 1..(i - 1) : ~(line[j] = ":" /\ line[j + 1] = SP)
    ELSE 0
SplitN(line) ==
    IF SepIndex(line) = 0 THEN <<line>>
    ELSE <<SubSeq(line, 1, SepIndex(line) - 1),
           SubSeq(line, SepIndex(line) + 2, Len(line))>>

\* strings.TrimSpace: leading and trailing white space removed
RECURSIVE TrimLeft(_)
TrimLeft(v) == IF v # <<>> /\ Head(v) \in WhiteSpace THEN TrimLeft(Tail(v)) ELSE v
RECURSIVE TrimRight(_)
TrimRight(v) == IF v # <<>> /\ v[Len(v)] \in WhiteSpace
                THEN TrimRight(SubSeq(v, 1, Len(v) - 1)) ELSE v
TrimSpace(v) == TrimRight(TrimLeft(v))

\* textproto.CanonicalMIMEHeaderKey, as http.Header.Add applies it to the key
CanonicalMIMEHeaderKey(key) ==
    IF \E i \in 1..Len(key) : ~ValidHeaderFieldByte(key[i]) THEN key
    ELSE [i \in 1..Len(key) |->
            IF i = 1 \/ key[i - 1] = "-" THEN ToUpper(key[i]) ELSE ToLower(key[i])]

\* Set in place of Add: the value replaces what the key held
HeaderSet(h, key, value) ==
    LET ck == CanonicalMIMEHeaderKey(key) IN
    [k \in DOMAIN h \cup {ck} |-> IF k = ck THEN <<value>> ELSE h[k]]

\* s.Headers.Add(key, value)
HeaderAdd(h, key, value) ==
    LET ck == CanonicalMIMEHeaderKey(key) IN
    IF ck \in DOMAIN h
    THEN [h EXCEPT ![ck] = Append(@, value)]
    ELSE [k \in DOMAIN h \cup {ck} |-> IF k = ck THEN <<value>> ELSE h[k]]

\* what bufio.NewReader(c).ReadString('\n') holds after the transport Read
\* delivered the next n bytes
Filled(n) == hsBuf \o SubSeq(hsIn, 1, n)
\* the line ReadString returns once its buffer holds an LF; the bytes behind
\* that LF stay in the reader, which is dropped
LineOf(b) == SubSeq(b, 1, FirstLF(b))

\* a handshake that answers the terminator with a 200 status line
HandleHeaderLine200(line) ==
    IF line = <<LF>>
    THEN /\ hsRet' = "ok"
         /\ hsOut' = hsOut \o DefaultProtocolSignature \o <<SP, "200", SP, "OK", CR, LF, CR, LF>>
         /\ UNCHANGED <<hsHeaders, hsClosed>>
    ELSE IF Len(SplitN(line)) < 2
    THEN /\ hsOut' = hsOut \o BadRequest
         /\ hsClosed' = TRUE
         /\ hsRet' = "bad"
         /\ UNCHANGED hsHeaders
    ELSE /\ hsHeaders' = HeaderAdd(hsHeaders, SplitN(line)[1], TrimSpace(SplitN(line)[2]))
         /\ UNCHANGED <<hsOut, hsClosed, hsRet>>

\* the body of the for loop of InitializeServerSession for one line
HandleHeaderLine(line) ==
    IF line = <<LF>>
    THEN /\ hsRet' = "ok"
         /\ UNCHANGED <<hsHeaders, hsOut, hsClosed>>
    ELSE IF Len(SplitN(line)) < 2
    THEN /\ hsOut' = hsOut \o BadRequest
         /\ hsClosed' = TRUE
         /\ hsRet' = "bad"
         /\ UNCHANGED hsHeaders
    ELSE /\ hsHeaders' = HeaderAdd(hsHeaders, SplitN(line)[1], TrimSpace(SplitN(line)[2]))
         /\ UNCHANGED <<hsOut, hsClosed, hsRet>>

\* InitializeServerSession: one transport Read inside ReadString
HSConnRead(n) ==
    /\ hsRet = "reading"
    /\ n \in 1..MaxChunk
    /\ n <= Len(hsIn)
    /\ hsIn' = SubSeq(hsIn, n + 1, Len(hsIn))
    /\ IF FirstLF(Filled(n)) = 0
       THEN /\ hsBuf' = Filled(n)
            /\ UNCHANGED <<hsLines, hsHeaders, hsOut, hsClosed, hsRet>>
       ELSE /\ hsBuf' = <<>>
            /\ hsLines' = Append(hsLines, LineOf(Filled(n)))
            /\ HandleHeaderLine(LineOf(Filled(n)))
    /\ UNCHANGED <<hsInput, hsReqs, svars, pvars, avars>>

\* a handshake that treats a read error like a malformed line
HSConnReadErrBadRequest ==
    /\ hsRet = "reading"
    /\ hsRet' = "bad"
    /\ hsBuf' = <<>>
    /\ hsOut' = hsOut \o BadRequest
    /\ hsClosed' = TRUE
    /\ UNCHANGED <<hsInput, hsIn, hsLines, hsReqs, hsHeaders, svars, pvars, avars>>

\* InitializeServerSession: the transport Read fails (end of stream or a
\* broken connection): the loop breaks and s is returned with the error
HSConnReadErr ==
    /\ hsRet = "reading"
    /\ hsRet' = "err"
    /\ hsBuf' = <<>>
    /\ UNCHANGED <<hsInput, hsIn, hsLines, hsReqs, hsHeaders, hsOut, hsClosed,
                   svars, pvars, avars>>

\* Session.ReadRequest on the returned session: one transport Read inside
\* its ReadString
ReadRequestConnRead(n) ==
    /\ hsRet = "ok"
    /\ n \in 1..MaxChunk
    /\ n <= Len(hsIn)
    /\ hsIn' = SubSeq(hsIn, n + 1, Len(hsIn))
    /\ IF FirstLF(Filled(n)) = 0
       THEN /\ hsBuf' = Filled(n)
            /\ UNCHANGED hsReqs
       ELSE /\ hsBuf' = <<>>
            /\ hsReqs' = Append(hsReqs, LineOf(Filled(n)))
    /\ UNCHANGED <<hsInput, hsLines, hsHeaders, hsOut, hsClosed, hsRet,
                   svars, pvars, avars>>


\* ------------------------------------------------------ router and handlers
DefaultMimeType == "application/json+rps"
NotImplemented == DefaultProtocolSignature \o <<SP, "501", SP, "Not Implemented", CR, LF, CR, LF>>

\* the handlers a router is built from: the defaultServer, the
\* NotImplementedServerSessionHandler values, and handlers whose
\* CanHandleSession answers a fixed value
HandlerSet == {[kind |-> "default", v |-> 0],
               [kind |-> "notimpl", v |-> 0], [kind |-> "notimpl", v |-> 42],
               [kind |-> "fixed", v |-> 1], [kind |-> "fixed", v |-> 0]}
Routers == SeqsUpTo(HandlerSet, MaxHandlers)

\* session.Headers of the sessions handed to a router; isNil marks the nil map
HeaderOf(k, vs) == [isNil |-> FALSE, m |-> [x \in {k} |-> vs]]
SessionHeaderSet ==
    {[isNil |-> TRUE, m |-> EmptyHeader], [isNil |-> FALSE, m |-> EmptyHeader]}
    \cup {HeaderOf("Accept", <<a>>) :
             a \in {DefaultMimeType, "application/json", "text/plain", "", "*/*"}}
    \cup {HeaderOf("Accept", <<>>),
          HeaderOf("Accept", <<"text/plain", DefaultMimeType>>),
          HeaderOf("Content-Type", <<DefaultMimeType>>)}

\* http.Header.Get(key) for a key in canonical form: the first value stored
\* under the key, "" if there is none or the map is nil
HeaderGet(h, key) ==
    IF ~h.isNil /\ key \in DOMAIN h.m /\ h.m[key] # <<>> THEN h.m[key][1] ELSE ""

\* a probe that also takes the wildcard
defaultServerCanHandleSessionWildcard(h) ==
    HeaderGet(h, "Accept") \in {DefaultMimeType, "*/*"}

\* defaultServer.CanHandleSession
defaultServerCanHandleSession(h) == HeaderGet(h, "Accept") = DefaultMimeType

\* NotImplementedServerSessionHandler.CanHandleSession
NotImplementedCanHandleSession(h) == TRUE

\* handler.CanHandleSession(session)
CanHandleSession(handler, h) ==
    CASE handler.kind = "default" -> defaultServerCanHandleSession(h)
      [] handler.kind = "notimpl" -> NotImplementedCanHandleSession(h)
      [] OTHER -> handler.v = 1

\* a handler that answers 501 and leaves the connection open
NotImplementedHandleSessionNoClose ==
    /\ rtOut' = rtOut \o NotImplemented
    /\ UNCHANGED rtClosed

\* NotImplementedServerSessionHandler.HandleSession
NotImplementedHandleSession ==
    /\ rtOut' = rtOut \o NotImplemented
    /\ rtClosed' = TRUE

\* handler.HandleSession(session): of the defaultServer and of a handler with
\* a fixed answer only the call is recorded
HandlerHandleSession(handler) ==
    IF handler.kind = "notimpl"
    THEN NotImplementedHandleSession
    ELSE UNCHANGED <<rtOut, rtClosed>>

\* r.CanHandleSession(session) or r.HandleSession(session) is called
RouterCall(op) ==
    /\ rtOp = "idle"
    /\ op \in {"can", "handle"}
    /\ rtOp' = op
    /\ rtPos' = 1
    /\ UNCHANGED <<rtHandlers, rtHeaders, rtProbed, rtHandled, rtRet, rtOut,
                   rtClosed, notRouter>>

\* a CanHandleSession that probes every handler before it answers
RouterCanProbeAll ==
    /\ rtOp = "can"
    /\ rtPos <= Len(rtHandlers)
    /\ LET res == CanHandleSession(rtHandlers[rtPos], rtHeaders) IN
       /\ rtProbed' = Append(rtProbed, [i |-> rtPos, res |-> res])
       /\ rtPos' = rtPos + 1
       /\ IF res THEN rtRet' = "true" ELSE UNCHANGED rtRet
       /\ UNCHANGED rtOp
    /\ UNCHANGED <<rtHandlers, rtHeaders, rtHandled, rtOut, rtClosed,
                   notRouter>>

\* ServerSessionRouter.CanHandleSession: one iteration of the range loop
RouterCanProbe ==
    /\ rtOp = "can"
    /\ rtPos <= Len(rtHandlers)
    /\ LET res == CanHandleSession(rtHandlers[rtPos], rtHeaders) IN
       /\ rtProbed' = Append(rtProbed, [i |-> rtPos, res |-> res])
       /\ IF res
          THEN /\ rtRet' = "true"
               /\ rtOp' = "done"
               /\ UNCHANGED rtPos
          ELSE /\ rtPos' = rtPos + 1
               /\ UNCHANGED <<rtRet, rtOp>>
    /\ UNCHANGED <<rtHandlers, rtHeaders, rtHandled, rtOut, rtClosed,
                   notRouter>>

\* ServerSessionRouter.CanHandleSession: the loop is over, return false
RouterCanEnd ==
    /\ rtOp = "can"
    /\ rtPos > Len(rtHandlers)
    /\ rtRet' = "false"
    /\ rtOp' = "done"
    /\ UNCHANGED <<rtHandlers, rtHeaders, rtPos, rtProbed, rtHandled, rtOut,
                   rtClosed, notRouter>>

\* a HandleSession without the return after the hand-over
RouterHandleProbeNoReturn ==
    /\ rtOp = "handle"
    /\ rtPos <= Len(rtHandlers)
    /\ LET res == CanHandleSession(rtHandlers[rtPos], rtHeaders) IN
       /\ rtProbed' = Append(rtProbed, [i |-> rtPos, res |-> res])
       /\ rtPos' = rtPos + 1
       /\ IF res
          THEN /\ rtHandled' = Append(rtHandled, rtPos)
               /\ HandlerHandleSession(rtHandlers[rtPos])
          ELSE UNCHANGED <<rtHandled, rtOut, rtClosed>>
       /\ UNCHANGED <<rtRet, rtOp>>
    /\ UNCHANGED <<rtHandlers, rtHeaders, notRouter>>

\* ServerSessionRouter.HandleSession: one iteration of the range loop
RouterHandleProbe ==
    /\ rtOp = "handle"
    /\ rtPos <= Len(rtHandlers)
    /\ LET res == CanHandleSession(rtHandlers[rtPos], rtHeaders) IN
       /\ rtProbed' = Append(rtProbed, [i |-> rtPos, res |-> res])
       /\ IF res
          THEN /\ rtHandled' = Append(rtHandled, rtPos)
               /\ HandlerHandleSession(rtHandlers[rtPos])
               /\ rtRet' = "returned"
               /\ rtOp' = "done"
               /\ UNCHANGED rtPos
          ELSE /\ rtPos' = rtPos + 1
               /\ UNCHANGED <<rtHandled, rtOut, rtClosed, rtRet, rtOp>>
    /\ UNCHANGED <<rtHandlers, rtHeaders, notRouter>>

\* ServerSessionRouter.HandleSession: the loop is over
RouterHandleEnd ==
    /\ rtOp = "handle"
    /\ rtPos > Len(rtHandlers)
    /\ rtRet' = "returned"
    /\ rtOp' = "done"
    /\ UNCHANGED <<rtHandlers, rtHeaders, rtPos, rtProbed, rtHandled, rtOut,
                   rtClosed, notRouter>>


\* ----------------------------------------------- Session: WriteHeader, Write
StatusCodes == {200, 299}
\* the %d of fmt.Fprintf for the codes used
Itoa(code) == IF code = 200 THEN "200" ELSE "299"
\* http.StatusText: "" for a code it does not know
StatusText(code) ==
    IF code = 200 THEN "OK" ELSE ""

HeaderKeys == {"Accept", "X-Id"}
HeaderValues == {"a", "b"}
Payloads == {<<"x">>, <<"x", LF, "y">>}

\* http.Header.Add on sess.Headers, for a key in canonical form
LocalHeaderAdd(h, key, value) ==
    IF key \in DOMAIN h
    THEN [h EXCEPT ![key] = Append(@, value)]
    ELSE [k \in DOMAIN h \cup {key} |-> IF k = key THEN <<value>> ELSE h[k]]
\* the orders in which a range over the map h can visit its keys
KeyOrders(h) ==
    {o \in [1..Cardinality(DOMAIN h) -> DOMAIN h] :
        \A a, b \in DOMAIN o : a # b => o[a] # o[b]}
\* the number of values h holds
NumValues(h) ==
    LET o == CHOOSE x \in KeyOrders(h) : TRUE
    IN  Len(Flatten([i \in DOMAIN o |-> h[o[i]]]))

\* header lines that carry only the first value of a key
HeaderLinesOfFirstValue(h, key) == <<key, ":", SP, h[key][1], CR, LF>>

\* the inner loop of WriteHeader: one "key: value\r\n" per value of the key
HeaderLinesOf(h, key) ==
    Flatten([i \in 1..Len(h[key]) |-> <<key, ":", SP, h[key][i], CR, LF>>])

\* what WriteHeader(code) prints when the range visits the keys in order o
HeaderSection(h, code, o) ==
    DefaultProtocolSignature \o <<SP, Itoa(code), SP, StatusText(code), CR, LF>>
    \o Flatten([i \in DOMAIN o |-> HeaderLinesOf(h, o[i])])
    \o <<CR, LF>>

\* what reaches the connection of bytes printed or written on it, and the
\* count Conn.Write reports
ConnWrite(b) == IF seConn = "open" THEN b ELSE <<>>

\* the entry of seLog for one call
Call(op, code, p, wrote, n) ==
    [op |-> op, code |-> code, p |-> p, wrote |-> wrote, n |-> n,
     open |-> seConn = "open", sent |-> seHeaderSent, headers |-> seHeaders]

\* the application adds a header value to sess.Headers
SessionHeaderAdd(key, value) ==
    /\ NumValues(seHeaders) < MaxValues
    /\ seHeaders' = LocalHeaderAdd(seHeaders, key, value)
    /\ UNCHANGED <<seHeaderSent, seConn, seOut, seLog, notSession>>

\* the connection is closed: every later write on it fails
SessionConnClose ==
    /\ seConn = "open"
    /\ seConn' = "closed"
    /\ UNCHANGED <<seHeaders, seHeaderSent, seOut, seLog, notSession>>

\* Session.WriteHeader(code): status line, header lines, blank line, latch;
\* the results of the Fprintf calls are not looked at
WriteHeader(code, o) ==
    /\ Len(seLog) < MaxCalls
    /\ o \in KeyOrders(seHeaders)
    /\ seOut' = seOut \o ConnWrite(HeaderSection(seHeaders, code, o))
    /\ seHeaderSent' = TRUE
    /\ seLog' = Append(seLog, Call("WriteHeader", code, <<>>,
                                   ConnWrite(HeaderSection(seHeaders, code, o)), 0))
    /\ UNCHANGED <<seHeaders, seConn, notSession>>

\* a Write that leaves the latch as it was
WriteNoLatch(p) ==
    /\ Len(seLog) < MaxCalls
    /\ LET b == (IF seHeaderSent THEN <<>> ELSE <<CR, LF>>) \o p IN
       /\ seOut' = seOut \o ConnWrite(b)
       /\ seLog' = Append(seLog, Call("Write", 0, p, ConnWrite(b), Len(ConnWrite(p))))
    /\ UNCHANGED <<seHeaderSent, seHeaders, seConn, notSession>>

\* Session.Write(p): the blank line first if the latch is unset, the latch,
\* then Conn.Write(p), whose count and error are returned
Write(p) ==
    /\ Len(seLog) < MaxCalls
    /\ LET b == (IF seHeaderSent THEN <<>> ELSE <<CR, LF>>) \o p IN
       /\ seOut' = seOut \o ConnWrite(b)
       /\ seLog' = Append(seLog, Call("Write", 0, p, ConnWrite(b), Len(ConnWrite(p))))
    /\ seHeaderSent' = TRUE
    /\ UNCHANGED <<seHeaders, seConn, notSession>>


\* ------------------ Session: WriteRequest, ReadRequest, WriteResponse, ReadResponse
\* JSON text is a sequence of tokens: punctuation, white space characters,
\* number and keyword literals, and for a string the quote, its content and
\* the quote.
QUOTE == "\""
NumberLiterals == {"1", "23", "42", "1.5", "-32601"}
IntLiterals == {"1", "23", "42", "-32601"}
KeywordLiterals == {"null", "true", "false"}

\* values of the ID and Data fields, of type any
NilAny == [t |-> "nil", v |-> ""]
StringAny(v) == [t |-> "string", v |-> v]
IntAny(v) == [t |-> "int", v |-> v]
Float64Any(v) == [t |-> "float64", v |-> v]

\* a nil *JSONRPCRequest / *JSONRPCResponse / *JSONRPCError
NilMsg == [k |-> "nil"]
JSONRPCRequest(version, method, params, id) ==
    [k |-> "request", version |-> version, method |-> method,
     params |-> params, id |-> id]
JSONRPCError(code, message, data) ==
    [k |-> "error", code |-> code, message |-> message, data |-> data]
JSONRPCResponse(version, id, result, error, method, params) ==
    [k |-> "response", version |-> version, id |-> id, result |-> result,
     error |-> error, method |-> method, params |-> params]

\* ---- encoding/json: Marshal
NotWhiteSpace(c) == c \notin WhiteSpace
\* json.Compact, which Marshal applies to a RawMessage: the insignificant
\* white space is removed
Compact(b) == SelectSeq(b, NotWhiteSpace)

\* the scanner: the index of the last token of the JSON value that starts
\* at token i of the white space free text t, 0 if there is none
RECURSIVE ValueEnd(_, _)
RECURSIVE ElemsEnd(_, _)
RECURSIVE MembersEnd(_, _)
ValueEnd(t, i) ==
    IF i > Len(t) THEN 0
    ELSE IF t[i] = QUOTE
         THEN IF i + 2 <= Len(t) /\ t[i + 1] # QUOTE /\ t[i + 2] = QUOTE THEN i + 2 ELSE 0
    ELSE IF t[i] \in NumberLiterals \cup KeywordLiterals THEN i
    ELSE IF t[i] = "["
         THEN IF i + 1 <= Len(t) /\ t[i + 1] = "]" THEN i + 1 ELSE ElemsEnd(t, i + 1)
    ELSE IF t[i] = "{"
         THEN IF i + 1 <= Len(t) /\ t[i + 1] = "}" THEN i + 1 ELSE MembersEnd(t, i + 1)
    ELSE 0
ElemsEnd(t, i) ==
    LET e == ValueEnd(t, i)
    IN  IF e = 0 \/ e + 1 > Len(t) THEN 0
        ELSE IF t[e + 1] = "]" THEN e + 1
        ELSE IF t[e + 1] = "," THEN ElemsEnd(t, e + 2)
        ELSE 0
MembersEnd(t, i) ==
    IF i + 3 > Len(t) \/ t[i] # QUOTE \/ t[i + 2] # QUOTE \/ t[i + 3] # ":" THEN 0
    ELSE LET e == ValueEnd(t, i + 4)
         IN  IF e = 0 \/ e + 1 > Len(t) THEN 0
             ELSE IF t[e + 1] = "}" THEN e + 1
             ELSE IF t[e + 1] = "," THEN MembersEnd(t, e + 2)
             ELSE 0
\* json.Valid: the text is one JSON value between optional white space
Valid(b) == Compact(b) # <<>> /\ ValueEnd(Compact(b), 1) = Len(Compact(b))

\* a string, and a value of type any, as Marshal writes them
EncodeString(v) == <<QUOTE, v, QUOTE>>
EncodeAny(a) ==
    IF a.t = "nil" THEN <<"null">>
    ELSE IF a.t = "string" THEN EncodeString(a.v)
    ELSE <<a.v>>
\* a struct field: `json:"name"`
EncodeField(name, value) == EncodeString(name) \o <<":">> \o value
\* the fields Marshal writes, separated by commas
RECURSIVE JoinFields(_)
JoinFields(fs) ==
    IF fs = <<>> THEN <<>>
    ELSE IF Len(fs) = 1 THEN fs[1]
    ELSE fs[1] \o <<",">> \o JoinFields(Tail(fs))
\* `omitempty`: the field is left out when its value is empty
OmitEmpty(empty, field) == IF empty THEN <<>> ELSE <<field>>

MarshalError(e) ==
    <<"{">>
    \o JoinFields(<<EncodeField("code", <<e.code>>)>>
                  \o <<EncodeField("message", EncodeString(e.message))>>
                  \o OmitEmpty(e.data.t = "nil", EncodeField("data", EncodeAny(e.data))))
    \o <<"}">>

\* a RawMessage field is marshalled by copying its text as it is
MarshalRaw(m) ==
    IF m.k = "nil" THEN <<"null">>
    ELSE IF m.k = "request"
    THEN <<"{">>
         \o JoinFields(<<EncodeField("jsonrpc", EncodeString(m.version))>>
                       \o <<EncodeField("method", EncodeString(m.method))>>
                       \o OmitEmpty(m.params = <<>>, EncodeField("params", m.params))
                       \o OmitEmpty(m.id.t = "nil", EncodeField("id", EncodeAny(m.id))))
         \o <<"}">>
    ELSE <<"{">>
         \o JoinFields(<<EncodeField("jsonrpc", EncodeString(m.version))>>
                       \o OmitEmpty(m.id.t = "nil", EncodeField("id", EncodeAny(m.id)))
                       \o OmitEmpty(m.result = <<>>, EncodeField("result", m.result))
                       \o OmitEmpty(m.error.k = "nil", EncodeField("error", MarshalError(m.error)))
                       \o OmitEmpty(m.method = "", EncodeField("method", EncodeString(m.method)))
                       \o OmitEmpty(m.params = <<>>, EncodeField("params", m.params)))
         \o <<"}">>

\* json.Marshal of a *JSONRPCRequest or *JSONRPCResponse: the fields in the
\* order of the struct, a RawMessage compacted
Marshal(m) ==
    IF m.k = "nil" THEN <<"null">>
    ELSE IF m.k = "request"
    THEN <<"{">>
         \o JoinFields(<<EncodeField("jsonrpc", EncodeString(m.version))>>
                       \o <<EncodeField("method", EncodeString(m.method))>>
                       \o OmitEmpty(m.params = <<>>, EncodeField("params", Compact(m.params)))
                       \o OmitEmpty(m.id.t = "nil", EncodeField("id", EncodeAny(m.id))))
         \o <<"}">>
    ELSE <<"{">>
         \o JoinFields(<<EncodeField("jsonrpc", EncodeString(m.version))>>
                       \o OmitEmpty(m.id.t = "nil", EncodeField("id", EncodeAny(m.id)))
                       \o OmitEmpty(m.result = <<>>, EncodeField("result", Compact(m.result)))
                       \o OmitEmpty(m.error.k = "nil", EncodeField("error", MarshalError(m.error)))
                       \o OmitEmpty(m.method = "", EncodeField("method", EncodeString(m.method)))
                       \o OmitEmpty(m.params = <<>>, EncodeField("params", Compact(m.params))))
         \o <<"}">>
\* Marshal returns an error when a RawMessage that is written is not valid JSON
MarshalFails(m) ==
    IF m.k = "nil" THEN FALSE
    ELSE IF m.k = "request" THEN m.params # <<>> /\ ~Valid(m.params)
    ELSE \/ m.result # <<>> /\ ~Valid(m.result)
         \/ m.params # <<>> /\ ~Valid(m.params)

\* ---- encoding/json: Unmarshal
\* the members of the object whose first key, or closing brace, is token i
\* of the valid white space free text t: the key and the tokens of the value
RECURSIVE ObjectMembers(_, _)
ObjectMembers(t, i) ==
    IF t[i] = "}" THEN <<>>
    ELSE LET e == ValueEnd(t, i + 4)
         IN  <<[key |-> t[i + 1], value |-> SubSeq(t, i + 4, e)]>>
             \o (IF t[e + 1] = "," THEN ObjectMembers(t, e + 2) ELSE <<>>)
\* the value decoded into the field `json:"name"`: that of the last member
\* with the key, <<>> when the object has none
FieldValue(ms, name) ==
    LET at == {j \in 1..Len(ms) : ms[j].key = name}
    IN  IF at = {} THEN <<>>
        ELSE ms[CHOOSE j \in at : \A x \in at : x <= j].value
\* a value that a field of the given Go type does not take
IsStringValue(v) == v = <<>> \/ v = <<"null">> \/ v[1] = QUOTE
IsIntValue(v) == v = <<>> \/ v = <<"null">> \/ v[1] \in IntLiterals
IsObjectValue(v) == v = <<>> \/ v = <<"null">> \/ v[1] = "{"
\* into a string: absent and null leave the zero value
DecodeString(v) == IF v # <<>> /\ v[1] = QUOTE THEN v[2] ELSE ""
\* into an int (the zero value is written "0")
DecodeInt(v) == IF v # <<>> /\ v[1] \in IntLiterals THEN v[1] ELSE "0"
\* into a json.RawMessage: the text of the value (the lines that are read
\* have no white space inside a value)
DecodeRawMessage(v) == v
\* into an any: a string, or a number as a float64; values of other kinds
\* are not used as ids
DecodeAny(v) ==
    IF v = <<>> \/ v = <<"null">> THEN NilAny
    ELSE IF v[1] = QUOTE THEN StringAny(v[2])
    ELSE Float64Any(v[1])
\* into a *JSONRPCError
DecodeError(v) ==
    IF v = <<>> \/ v = <<"null">> \/ v[1] # "{" THEN NilMsg
    ELSE LET ms == ObjectMembers(v, 2)
         IN  JSONRPCError(DecodeInt(FieldValue(ms, "code")),
                          DecodeString(FieldValue(ms, "message")),
                          DecodeAny(FieldValue(ms, "data")))
ErrorTypeMismatch(v) ==
    \/ ~IsObjectValue(v)
    \/ /\ v # <<>> /\ v[1] = "{"
       /\ LET ms == ObjectMembers(v, 2)
          IN  \/ ~IsIntValue(FieldValue(ms, "code"))
              \/ ~IsStringValue(FieldValue(ms, "message"))

\* json.Unmarshal(line, &msg) for msg a nil *JSONRPCRequest (kind
\* "request") or *JSONRPCResponse (kind "response"): the error, and msg
Unmarshal(line, kind) ==
    LET t == Compact(line)
        ms == ObjectMembers(t, 2)
    IN  IF ~Valid(line) THEN [err |-> "decode", msg |-> NilMsg]
        ELSE IF t = <<"null">> THEN [err |-> "none", msg |-> NilMsg]
        ELSE IF kind = "request"
        THEN IF t[1] # "{"
             THEN [err |-> "decode", msg |-> JSONRPCRequest("", "", <<>>, NilAny)]
             ELSE [err |-> IF /\ IsStringValue(FieldValue(ms, "jsonrpc"))
                              /\ IsStringValue(FieldValue(ms, "method"))
                           THEN "none" ELSE "decode",
                   msg |-> JSONRPCRequest(
                       DecodeString(FieldValue(ms, "jsonrpc")),
                       DecodeString(FieldValue(ms, "method")),
                       DecodeRawMessage(FieldValue(ms, "params")),
                       DecodeAny(FieldValue(ms, "id")))]
        ELSE IF t[1] # "{"
             THEN [err |-> "decode",
                   msg |-> JSONRPCResponse("", NilAny, <<>>, NilMsg, "", <<>>)]
             ELSE [err |-> IF /\ IsStringValue(FieldValue(ms, "jsonrpc"))
                              /\ IsStringValue(FieldValue(ms, "method"))
                              /\ ~ErrorTypeMismatch(FieldValue(ms, "error"))
                           THEN "none" ELSE "decode",
                   msg |-> JSONRPCResponse(
                       DecodeString(FieldValue(ms, "jsonrpc")),
                       DecodeAny(FieldValue(ms, "id")),
                       DecodeRawMessage(FieldValue(ms, "result")),
                       DecodeError(FieldValue(ms, "error")),
                       DecodeString(FieldValue(ms, "method")),
                       DecodeRawMessage(FieldValue(ms, "params")))]

\* ---- the messages and payloads written
WireRequests ==
    {JSONRPCRequest("2.0", "subtract", <<"[", "42", ",", "23", "]">>, StringAny("1")),
     JSONRPCRequest("2.0", "subtract", <<"[", "42", ",", SP, LF, "23", "]">>, IntAny("1")),
     JSONRPCRequest("2.0", "notify", <<>>, NilAny),
     JSONRPCRequest("2.0", "update", <<"{", QUOTE, "a", QUOTE, ":", "1.5", "}">>, Float64Any("1.5")),
     JSONRPCRequest("2.0", "subtract", <<"[", "42">>, StringAny("1"))}
WireResponses ==
    {JSONRPCResponse("2.0", StringAny("1"), <<"23">>, NilMsg, "", <<>>),
     JSONRPCResponse("2.0", IntAny("1"), <<"[", LF, "1", "]">>, NilMsg, "", <<>>),
     JSONRPCResponse("2.0", NilAny, <<>>, JSONRPCError("-32601", "Method not found", NilAny), "", <<>>),
     JSONRPCResponse("2.0", NilAny, <<>>, NilMsg, "update", <<"[", "1", "]">>)}
\* payloads handed to Write: an empty line, a line that is not JSON, the
\* document null, and bytes without a newline
WirePayloads == {<<LF>>, <<"{", "invalid", LF>>, <<"null", LF>>, <<"{">>}
WireItems(kind) ==
    {[k |-> "message", m |-> m, p |-> <<>>] :
        m \in IF kind = "request" THEN WireRequests ELSE WireResponses}
    \cup {[k |-> "payload", m |-> NilMsg, p |-> p] : p \in WirePayloads}

\* the item the next call on the writing session sends
HasNextItem == Len(seLog) < Len(wiItems)
NextItem == wiItems[Len(seLog) + 1]

\* WriteRequest and WriteResponse: Marshal, then Write of the line and "\n";
\* nothing is written when Marshal fails
WriteLine(m) ==
    IF MarshalFails(m)
    THEN /\ seLog' = Append(seLog, Call("MarshalError", 0, <<>>, <<>>, 0))
         /\ UNCHANGED <<seHeaders, seHeaderSent, seConn, seOut, notSession>>
    ELSE Write(Append(Marshal(m), LF))
WriteRequest(request) ==
    /\ wiKind = "request"
    /\ HasNextItem /\ NextItem.k = "message" /\ NextItem.m = request
    /\ WriteLine(request)
WriteResponse(response) ==
    /\ wiKind = "response"
    /\ HasNextItem /\ NextItem.k = "message" /\ NextItem.m = response
    /\ WriteLine(response)
\* the application writes a payload of its own
WritePayload(p) ==
    /\ HasNextItem /\ NextItem.k = "payload" /\ NextItem.p = p
    /\ Write(p)

\* ---- the peer's session reads
\* the bytes the peer's session finds on its connection: those written
\* after the header terminator
WireStream ==
    IF Len(seOut) >= 2 /\ SubSeq(seOut, 1, 2) = <<CR, LF>>
    THEN SubSeq(seOut, 3, Len(seOut))
    ELSE seOut
\* the peer reads once everything was written, until a read call fails
\* with the end of the stream
WireReading ==
    /\ wiKind \in {"request", "response"}
    /\ Len(seLog) = Len(wiItems)
    /\ \A i \in 1..Len(wiReads) : wiReads[i].err # "EOF"
\* what a read call returns for the line its ReadString got
ReadResult(line) ==
    [line |-> line, err |-> Unmarshal(line, wiKind).err,
     msg |-> Unmarshal(line, wiKind).msg]

\* ReadRequest / ReadResponse: one transport Read of n bytes inside
\* ReadString of the bufio.Reader made for the call; with an LF in the
\* buffer the call decodes the line and returns, and its reader is dropped
\* with the bytes behind the LF
ReadConnRead(n) ==
    /\ WireReading
    /\ n <= Len(WireStream) - wiPos
    /\ wiPos' = wiPos + n
    /\ LET b == wiBuf \o SubSeq(WireStream, wiPos + 1, wiPos + n) IN
       IF FirstLF(b) = 0
       THEN /\ wiBuf' = b
            /\ UNCHANGED wiReads
       ELSE /\ wiBuf' = <<>>
            /\ wiReads' = Append(wiReads, ReadResult(LineOf(b)))
    /\ UNCHANGED <<wiKind, wiItems, notWire>>

\* ReadRequest / ReadResponse: the transport Read reports the end of the
\* stream: ReadString returns what it has with io.EOF, the call returns the
\* nil message and the error
ReadConnEOF ==
    /\ WireReading
    /\ wiPos = Len(WireStream)
    /\ wiBuf' = <<>>
    /\ wiReads' = Append(wiReads, [line |-> wiBuf, err |-> "EOF", msg |-> NilMsg])
    /\ UNCHANGED <<wiKind, wiItems, wiPos, notWire>>

\* ------------------------------------------------- InitializeClientSession
\* sess.ProtocolSignature as the constructor sets it
ClientProtocolSignature == DefaultProtocolSignature

\* the header maps a caller supplies: none, DefaultClientHeader(), a
\* repeated name, two names
ClientHeaderSet ==
    {EmptyHeader,
     [k \in {<<"Accept">>} |-> <<<<DefaultMimeType>>>>],
     [k \in {<<"A">>} |-> <<<<"x">>, <<"y">>>>],
     [k \in {<<"A">>, <<"X">>} |-> <<<<"x">>>>]}
\* the lines of a peer's reply: status lines, header lines, a line without
\* the separator, terminators
ClientLineSet == {
    DefaultProtocolSignature \o <<SP, "200", SP, "OK", CR, LF>>,
    <<"HTTP/1.1", SP, "200", SP, "OK", CR, LF>>,
    <<"a", ":", SP, "x", CR, LF>>,
    <<"b", ":", SP, SP, "y", CR, LF>>,
    <<"a", "x", LF>>,
    <<LF>>,
    <<CR, LF>> }
ClientInputs == {Flatten(ls) : ls \in SeqsUpTo(ClientLineSet, MaxReplyLines)}

\* strings.Trim(line, "\r\n "): leading and trailing bytes of the cutset removed
RECURSIVE TrimCutsetLeft(_, _)
TrimCutsetLeft(v, cutset) ==
    IF v # <<>> /\ Head(v) \in cutset THEN TrimCutsetLeft(Tail(v), cutset) ELSE v
RECURSIVE TrimCutsetRight(_, _)
TrimCutsetRight(v, cutset) ==
    IF v # <<>> /\ v[Len(v)] \in cutset
    THEN TrimCutsetRight(SubSeq(v, 1, Len(v) - 1), cutset) ELSE v
Trim(v, cutset) == TrimCutsetRight(TrimCutsetLeft(v, cutset), cutset)

\* sess.WriteClientHeader(): the local header block, one "Name: Value\r\n"
\* per value, and the terminator, the range visiting the names in order o
WriteClientHeader(h, o) ==
    Flatten([i \in DOMAIN o |->
        Flatten([j \in 1..Len(h[o[i]]) |-> o[i] \o <<":", SP>> \o h[o[i]][j] \o <<CR, LF>>])])
    \o <<CR, LF>>

\* the request InitializeClientSession sends (the id is a new UUID)
PingRequest == JSONRPCRequest("2.0", "ping", <<>>, StringAny("uuid"))

\* InitializeClientSession up to its first read: WriteClientHeader, the
\* check of the signature, WriteRequest of the ping through Session.Write.
\* Whether WriteClientHeader sets sess.headerSent is not known: sets.
ClientStart(o, sets) ==
    /\ clRet = "start"
    /\ IF ClientProtocolSignature # DefaultProtocolSignature
       THEN /\ clOut' = clOut \o WriteClientHeader(clLocal, o)
            /\ clLatch' = sets
            /\ clClosed' = TRUE
            /\ clRet' = "invalid"
       ELSE /\ clOut' = clOut \o WriteClientHeader(clLocal, o)
                        \o (IF sets THEN <<>> ELSE <<CR, LF>>)
                        \o Append(Marshal(PingRequest), LF)
            /\ clLatch' = TRUE
            /\ clRet' = "reading"
            /\ UNCHANGED clClosed
    /\ UNCHANGED <<clSent, clLocal, clRemote, clInput, clIn, clBuf, clLines, notClient>>

\* the body of the for loop of InitializeClientSession for one line
ClientHandleLine(line) ==
    LET t == Trim(line, {CR, LF, SP}) IN
    IF t = <<>>
    THEN /\ clRet' = "ok"
         /\ UNCHANGED clLocal
    ELSE IF Len(SplitN(t)) = 2
    THEN /\ clLocal' = HeaderAdd(clLocal, SplitN(t)[1], TrimSpace(SplitN(t)[2]))
         /\ UNCHANGED clRet
    ELSE UNCHANGED <<clLocal, clRet>>

\* InitializeClientSession: one transport Read inside ReadString of the
\* bufio.Reader made for the line
ClientConnRead(n) ==
    /\ clRet = "reading"
    /\ n <= Len(clIn)
    /\ clIn' = SubSeq(clIn, n + 1, Len(clIn))
    /\ LET b == clBuf \o SubSeq(clIn, 1, n) IN
       IF FirstLF(b) = 0
       THEN /\ clBuf' = b
            /\ UNCHANGED <<clLines, clLocal, clRet>>
       ELSE /\ clBuf' = <<>>
            /\ clLines' = Append(clLines, LineOf(b))
            /\ ClientHandleLine(LineOf(b))
    /\ UNCHANGED <<clSent, clRemote, clLatch, clInput, clOut, clClosed, notClient>>

\* InitializeClientSession: the transport Read fails (end of stream or a
\* broken connection): the loop breaks; the error is local to the loop and
\* the call returns the session and no error
ClientConnReadErr ==
    /\ clRet = "reading"
    /\ clRet' = "ok"
    /\ clBuf' = <<>>
    /\ UNCHANGED <<clSent, clLocal, clRemote, clLatch, clInput, clIn, clLines,
                   clOut, clClosed, notClient>>

\* ------------------------------------------------------ the specifications
\* the Session variables while the other specifications run
SessionUnused ==
    /\ seHeaders = EmptyHeader
    /\ seHeaderSent = FALSE
    /\ seConn = "unused"
    /\ seOut = <<>>
    /\ seLog = <<>>

\* the variables of the written and read back messages while the other
\* specifications run
WireUnused ==
    /\ wiKind = "unused"
    /\ wiItems = <<>>
    /\ wiPos = 0
    /\ wiBuf = <<>>
    /\ wiReads = <<>>

\* the client handshake variables while the other specifications run
ClientUnused ==
    /\ clSent = EmptyHeader
    /\ clLocal = EmptyHeader
    /\ clRemote = EmptyHeader
    /\ clLatch = FALSE
    /\ clInput = <<>>
    /\ clIn = <<>>
    /\ clBuf = <<>>
    /\ clLines = <<>>
    /\ clOut = <<>>
    /\ clClosed = FALSE
    /\ clRet = "unused"

\* the router variables while the other specifications run
RouterUnused ==
    /\ rtHandlers = <<>>
    /\ rtHeaders = [isNil |-> TRUE, m |-> EmptyHeader]
    /\ rtOp = "unused"
    /\ rtPos = 0
    /\ rtProbed = <<>>
    /\ rtHandled = <<>>
    /\ rtRet = "none"
    /\ rtOut = <<>>
    /\ rtClosed = FALSE

\* the handshake variables while the pipeline specifications run
HandshakeUnused ==
    /\ hsInput = <<>>
    /\ hsIn = <<>>
    /\ hsBuf = <<>>
    /\ hsLines = <<>>
    /\ hsReqs = <<>>
    /\ hsHeaders = EmptyHeader
    /\ hsOut = <<>>
    /\ hsClosed = FALSE
    /\ hsRet = "unused"

\* NewServer(), and for every session a connection just handed over
PipelineInit ==
    /\ methods = [n \in MethodNames |-> "none"]
    /\ methodsLock = FALSE
    /\ closed = FALSE
    /\ panicked = NoPanic
    /\ hs = [s \in Sessions |-> "idle"]
    /\ conn = [s \in Sessions |-> "open"]
    /\ inbuf = [s \in Sessions |-> <<>>]
    /\ nsent = [s \in Sessions |-> 0]
    /\ rpc = [s \in Sessions |-> "idle"]
    /\ rreq = [s \in Sessions |-> NilReq]
    /\ reqQueue = [s \in Sessions |-> <<>>]
    /\ reqClosed = [s \in Sessions |-> FALSE]
    /\ dpc = [s \in Sessions |-> "idle"]
    /\ methodsWG = [s \in Sessions |-> 0]
    /\ inv = [s \in Sessions |-> {}]
    /\ respQueue = [s \in Sessions |-> <<>>]
    /\ respClosed = [s \in Sessions |-> FALSE]
    /\ wpc = [s \in Sessions |-> "idle"]
    /\ sessionDone = [s \in Sessions |-> FALSE]
    /\ sessionDoneOnce = [s \in Sessions |-> FALSE]
    /\ headerSent = [s \in Sessions |-> FALSE]
    /\ written = [s \in Sessions |-> <<>>]
    /\ dlog = [s \in Sessions |-> <<>>]
    /\ ilog = [s \in Sessions |-> <<>>]

Init ==
    /\ PipelineInit /\ HandshakeUnused /\ RouterUnused /\ SessionUnused
    /\ WireUnused /\ ClientUnused

ServerNext ==
    \/ \E name \in MethodNames : \E m \in MethodArgs(name) : SetMethod(name, m)
    \/ Close

SessionNext(s) ==
    \/ \E line \in LinesAt(nsent[s] + 1) : PeerSend(s, line)
    \/ PeerEOF(s)
    \/ ConnClose(s)
    \/ HandleSessionStart(s)
    \/ HandleSessionReturn(s)
    \/ \E j \in 0..MaxReqs : \E cut \in BOOLEAN : ReaderRead(s, j, cut)
    \/ ReaderReadErr(s)
    \/ ReaderEnqueue(s)
    \/ DispatchSessionDone(s)
    \/ DispatchServerClosed(s)
    \/ DispatchQueueClosed(s)
    \/ DispatchRequest(s)
    \/ DispatchRaceAbort(s)
    \/ DispatchWait(s)
    \/ \E v \in inv[s] : \E out \in {"response", "error", "nil"} : InvokeReturn(s, v, out)
    \/ \E v \in inv[s] : InvokeSend(s, v)
    \/ \E v \in inv[s] : InvokeSessionDone(s, v)
    \/ \E v \in inv[s] : InvokeServerClosed(s, v)
    \/ WriterSessionDone(s)
    \/ WriterServerClosed(s)
    \/ WriterQueueClosed(s)
    \/ WriterWrite(s)

Next == ServerNext \/ \E s \in SpecSessions : SessionNext(s)

Spec == Init /\ [][Next]_vars

InitHS ==
    /\ PipelineInit
    /\ hsInput \in HSInputs
    /\ hsIn = hsInput
    /\ hsBuf = <<>>
    /\ hsLines = <<>>
    /\ hsReqs = <<>>
    /\ hsHeaders = EmptyHeader
    /\ hsOut = <<>>
    /\ hsClosed = FALSE
    /\ hsRet = "reading"
    /\ RouterUnused
    /\ SessionUnused
    /\ WireUnused
    /\ ClientUnused

NextHS ==
    \/ \E n \in 1..MaxChunk : HSConnRead(n)
    \/ HSConnReadErr
    \/ \E n \in 1..MaxChunk : ReadRequestConnRead(n)

SpecHS == InitHS /\ [][NextHS]_vars

\* a router, a session, and one call of a method of the router
InitRouter ==
    /\ PipelineInit
    /\ HandshakeUnused
    /\ rtHandlers \in Routers
    /\ rtHeaders \in SessionHeaderSet
    /\ rtOp = "idle"
    /\ rtPos = 0
    /\ rtProbed = <<>>
    /\ rtHandled = <<>>
    /\ rtRet = "none"
    /\ rtOut = <<>>
    /\ rtClosed = FALSE
    /\ SessionUnused
    /\ WireUnused
    /\ ClientUnused

NextRouter ==
    \/ \E op \in {"can", "handle"} : RouterCall(op)
    \/ RouterCanProbe
    \/ RouterCanEnd
    \/ RouterHandleProbe
    \/ RouterHandleEnd

SpecRouter == InitRouter /\ [][NextRouter]_vars

\* a new Session on an open connection, and the calls made on it
InitSession ==
    /\ PipelineInit
    /\ HandshakeUnused
    /\ RouterUnused
    /\ seHeaders = EmptyHeader
    /\ seHeaderSent = FALSE
    /\ seConn = "open"
    /\ seOut = <<>>
    /\ seLog = <<>>
    /\ WireUnused
    /\ ClientUnused

NextSession ==
    \/ \E key \in HeaderKeys : \E value \in HeaderValues : SessionHeaderAdd(key, value)
    \/ SessionConnClose
    \/ \E code \in StatusCodes : \E o \in KeyOrders(seHeaders) : WriteHeader(code, o)
    \/ \E p \in Payloads : Write(p)

SpecSession == InitSession /\ [][NextSession]_vars

\* a new Session on an open connection on which requests, or responses, and
\* payloads are written, and the peer's session that reads them back
InitWire ==
    /\ PipelineInit
    /\ HandshakeUnused
    /\ RouterUnused
    /\ seHeaders = EmptyHeader
    /\ seHeaderSent = FALSE
    /\ seConn = "open"
    /\ seOut = <<>>
    /\ seLog = <<>>
    /\ wiKind \in {"request", "response"}
    /\ wiItems \in SeqsUpTo(WireItems(wiKind), MaxMsgs)
    /\ wiPos = 0
    /\ wiBuf = <<>>
    /\ wiReads = <<>>
    /\ ClientUnused

NextWire ==
    \/ \E request \in WireRequests : WriteRequest(request)
    \/ \E response \in WireResponses : WriteResponse(response)
    \/ \E p \in WirePayloads : WritePayload(p)
    \/ \E n \in 1..MaxChunk : ReadConnRead(n)
    \/ ReadConnEOF

SpecWire == InitWire /\ [][NextWire]_vars

\* InitializeClientSession called with a header map, on a connection that
\* carries the peer's reply
InitClient ==
    /\ PipelineInit
    /\ HandshakeUnused
    /\ RouterUnused
    /\ SessionUnused
    /\ WireUnused
    /\ clSent \in ClientHeaderSet
    /\ clLocal = clSent
    /\ clRemote = EmptyHeader
    /\ clLatch = FALSE
    /\ clInput \in ClientInputs
    /\ clIn = clInput
    /\ clBuf = <<>>
    /\ clLines = <<>>
    /\ clOut = <<>>
    /\ clClosed = FALSE
    /\ clRet = "start"

NextClient ==
    \/ \E o \in KeyOrders(clLocal) : \E sets \in BOOLEAN : ClientStart(o, sets)
    \/ \E n \in 1..MaxChunk : ClientConnRead(n)
    \/ ClientConnReadErr

SpecClient == InitClient /\ [][NextClient]_vars

\* A client and a server on one connection: InitializeClientSession writes
\* its header block, followed (client.go) or not (the variant without the
\* ping) by the ping request, and InitializeServerSession reads what was
\* written.
HelloWrite(o, ping) ==
    /\ clRet = "start"
    /\ clRet' = "sent"
    /\ clOut' = WriteClientHeader(clLocal, o)
                 \o (IF ping THEN Append(Marshal(PingRequest), LF) ELSE <<>>)
    /\ hsInput' = clOut'
    /\ hsIn' = clOut'
    /\ UNCHANGED <<clSent, clLocal, clRemote, clLatch, clInput, clIn, clBuf,
                   clLines, clClosed, hsBuf, hsLines, hsReqs, hsHeaders, hsOut,
                   hsClosed, hsRet, svars, pvars, rvars, wvars, ivars>>

InitHello ==
    /\ PipelineInit
    /\ RouterUnused
    /\ SessionUnused
    /\ WireUnused
    /\ clSent \in ClientHeaderSet
    /\ clLocal = clSent
    /\ clRemote = EmptyHeader
    /\ clLatch = FALSE
    /\ clInput = <<>>
    /\ clIn = <<>>
    /\ clBuf = <<>>
    /\ clLines = <<>>
    /\ clOut = <<>>
    /\ clClosed = FALSE
    /\ clRet = "start"
    /\ hsInput = <<>>
    /\ hsIn = <<>>
    /\ hsBuf = <<>>
    /\ hsLines = <<>>
    /\ hsReqs = <<>>
    /\ hsHeaders = EmptyHeader
    /\ hsOut = <<>>
    /\ hsClosed = FALSE
    /\ hsRet = "reading"

NextHello ==
    \/ \E o \in KeyOrders(clLocal) : \E ping \in BOOLEAN : HelloWrite(o, ping)
    \/ \E n \in 1..MaxChunk : HSConnRead(n)
    \/ HSConnReadErr

SpecHello == InitHello /\ [][NextHello]_vars

\* The goroutines of a session are scheduled fairly: a goroutine that can
\* take a step eventually takes one.  A select with several ready cases
\* takes any of them.  Nothing is assumed of the peer, of the callers of
\* SetMethod and Close, or of a Method that is not "echo".
ReaderStep(s) ==
    \/ \E j \in 0..MaxReqs : \E cut \in BOOLEAN : ReaderRead(s, j, cut)
    \/ ReaderReadErr(s)
    \/ ReaderEnqueue(s)
DispatcherStep(s) ==
    \/ DispatchSessionDone(s)
    \/ DispatchServerClosed(s)
    \/ DispatchQueueClosed(s)
    \/ DispatchRequest(s)
    \/ DispatchWait(s)
WriterStep(s) ==
    \/ WriterSessionDone(s)
    \/ WriterServerClosed(s)
    \/ WriterQueueClosed(s)
    \/ WriterWrite(s)
InvocationStep(s) ==
    \/ \E v \in inv[s] : v.m = "echo" /\ InvokeReturn(s, v, "response")
    \/ \E v \in inv[s] : InvokeSend(s, v)
    \/ \E v \in inv[s] : InvokeSessionDone(s, v)
    \/ \E v \in inv[s] : InvokeServerClosed(s, v)
Fairness ==
    \A s \in SpecSessions :
        /\ WF_vars(ReaderStep(s))
        /\ WF_vars(DispatcherStep(s))
        /\ WF_vars(WriterStep(s))
        /\ WF_vars(InvocationStep(s))
        /\ WF_vars(HandleSessionReturn(s))

LiveSpec == Init /\ [][Next]_vars /\ Fairness

\* A session whose peer sends a burst of calls of "test.echo", a method
\* that answers every call once it is registered: more responses than
\* respQueue holds.  The transport delivers one line per read, so that
\* every request of the burst reaches the reader.
SessionNextBurst(s) ==
    \/ PeerSendBurst(s)
    \/ PeerEOF(s)
    \/ ConnClose(s)
    \/ HandleSessionStart(s)
    \/ HandleSessionReturn(s)
    \/ ReaderRead(s, 0, FALSE)
    \/ ReaderReadErr(s)
    \/ ReaderEnqueue(s)
    \/ DispatchSessionDone(s)
    \/ DispatchServerClosed(s)
    \/ DispatchQueueClosed(s)
    \/ DispatchRequest(s)
    \/ DispatchWait(s)
    \/ \E v \in inv[s] : InvokeReturn(s, v, "response")
    \/ \E v \in inv[s] : InvokeSend(s, v)
    \/ \E v \in inv[s] : InvokeSessionDone(s, v)
    \/ \E v \in inv[s] : InvokeServerClosed(s, v)
    \/ WriterSessionDone(s)
    \/ WriterServerClosed(s)
    \/ WriterQueueClosed(s)
    \/ WriterWrite(s)

NextBurst ==
    \/ SetMethod("test.echo", "echo")
    \/ Close
    \/ \E s \in SpecSessions : SessionNextBurst(s)

LiveSpecBurst == Init /\ [][NextBurst]_vars /\ Fairness

\* Two sessions handled at once by one server, each with a peer that sends
\* one call of "test.echo"; with one request a session's reqQueue is never
\* full, so the reader never waits to enqueue.
SessionNextTwo(s) ==
    \/ PeerSendOwn(s)
    \/ PeerEOF(s)
    \/ ConnClose(s)
    \/ HandleSessionStart(s)
    \/ HandleSessionReturn(s)
    \/ ReaderRead(s, 0, FALSE)
    \/ ReaderReadErr(s)
    \/ DispatchSessionDone(s)
    \/ DispatchServerClosed(s)
    \/ DispatchQueueClosed(s)
    \/ DispatchRequest(s)
    \/ DispatchWait(s)
    \/ \E v \in inv[s] : InvokeReturn(s, v, "response")
    \/ \E v \in inv[s] : InvokeSend(s, v)
    \/ \E v \in inv[s] : InvokeSessionDone(s, v)
    \/ \E v \in inv[s] : InvokeServerClosed(s, v)
    \/ WriterSessionDone(s)
    \/ WriterServerClosed(s)
    \/ WriterQueueClosed(s)
    \/ WriterWrite(s)

NextTwo ==
    \/ SetMethod("test.echo", "echo")
    \/ Close
    \/ \E s \in Sessions : SessionNextTwo(s)

SpecTwo == Init /\ [][NextTwo]_vars

\* ================================================================== claims
Last(q) == q[Len(q)]
IsResponseLine(x) == x.k # "terminator"
\* the response lines among what was written on a connection
Responses(w) == SelectSeq(w, IsResponseLine)
\* every goroutine of the session's pipeline has ended and HandleSession
\* has returned
Quiescent(s) ==
    /\ hs[s] = "returned"
    /\ rpc[s] \in {"readerr", "decodeerr"}
    /\ dpc[s] = "done"
    /\ wpc[s] \in {"exited", "failed"}
    /\ inv[s] = {}
\* the reader's ReadRequest failed on the transport, or the writer's
\* WriteResponse failed
ReadFailed(s) == rpc[s] = "readerr"
WriteFailed(s) == wpc[s] = "failed"
\* panics provoked by the callers of the server API (a second Close, a
\* SetMethod overlapping a lookup), not by the session itself
APIPanics == {"Close: close of closed channel",
              "dispatcher: concurrent map read and map write"}

\* C1: with "test.echo" registered as the echo Method, a session whose input
\* is exactly one request line for test.echo followed by the end of the
\* stream ends with exactly one response written on its connection, with the
\* request's id and the request's params as result.  (Stated for the runs in
\* which the server was not closed, nothing panicked and the dispatcher's
\* lookup found the echo Method.)
C1_OneEchoResponse ==
    \A s \in SpecSessions :
        ( /\ nsent[s] = 1
          /\ conn[s] = "eof"
          /\ ~closed
          /\ Live
          /\ dlog[s] = <<[id |-> 1, method |-> "test.echo", m |-> "echo"]>>
          /\ Quiescent(s) )
        => Responses(written[s]) = <<[k |-> "json", id |-> 1, result |-> <<"p", 1>>]>>

\* C2: a read failure or a write failure of the pipeline triggers
\* session-done, after which HandleSession returns, without panic: once the
\* reader or the writer has failed, session-done has fired and HandleSession,
\* if it has not returned yet, is able to return.  (A panic provoked by the
\* callers of the server API is not held against the claim here.)
C2_FailureEndsSession ==
    \A s \in SpecSessions :
        (ReadFailed(s) \/ WriteFailed(s)) =>
            /\ sessionDone[s]
            /\ panicked # "cleanUp: close of closed channel"
            /\ hs[s] = "running" =>
                   (ENABLED HandleSessionReturn(s) \/ panicked \in APIPanics)

\* C3: after Close() every active HandleSession call eventually returns,
\* also when the connection stays open and no read or write fails.  (A run
\* that ends in a panic is not held against the claim here.)
C3_CloseEndsSessions ==
    \A s \in SpecSessions :
        (closed /\ hs[s] = "running") ~> (hs[s] = "returned" \/ ~Live)

\* ------------------------------------------------- handshake: expectations
\* the line holds the two-byte separator ": "
HasSeparator(line) == \E i \in 1..(Len(line) - 1) : line[i] = ":" /\ line[i + 1] = SP
\* a line that is neither the terminator nor a Name: Value line
Malformed(line) == line # <<LF>> /\ ~HasSeparator(line)
\* the name and the raw value of a Name: Value line: the bytes before and
\* behind the earliest ": "
NameValue(line) ==
    CHOOSE nv \in {<<SubSeq(line, 1, i - 1), SubSeq(line, i + 2, Len(line))>> :
                     i \in 1..(Len(line) - 1)} :
        /\ line = nv[1] \o <<":", SP>> \o nv[2]
        /\ ~HasSeparator(nv[1] \o <<":">>)
Blank(c) == c = SP \/ c = CR \/ c = LF
\* v without the white space at its end
RightTrimmed(v) ==
    CHOOSE t \in {SubSeq(v, 1, j) : j \in 0..Len(v)} :
        /\ \A i \in (Len(t) + 1)..Len(v) : Blank(v[i])
        /\ t # <<>> => ~Blank(t[Len(t)])
\* v without the white space at both ends
Trimmed(v) ==
    LET cut == CHOOSE c \in (1..(Len(v) + 1)) \X (0..Len(v)) :
                  /\ c[1] <= c[2] + 1
                  /\ \A x \in 1..(c[1] - 1) : Blank(v[x])
                  /\ \A x \in (c[2] + 1)..Len(v) : Blank(v[x])
                  /\ c[1] <= c[2] => (~Blank(v[c[1]]) /\ ~Blank(v[c[2]]))
    IN  SubSeq(v, cut[1], cut[2])
AsReceived(name) == name
Capital == {"A", "B", "X", "Y"}
Small == {"a", "b", "x", "y"}
SameLetter(c, d) == c = d \/ <<c, d>> \in {<<"a", "A">>, <<"b", "B">>, <<"x", "X">>, <<"y", "Y">>}
                          \/ <<d, c>> \in {<<"a", "A">>, <<"b", "B">>, <<"x", "X">>, <<"y", "Y">>}
\* the canonical MIME form of a header name: a name of letters and hyphens
\* has its first letter and every letter behind a hyphen in upper case and
\* the other letters in lower case; any other name is left as it is
CanonicalName(name) ==
    IF \E i \in 1..Len(name) : name[i] \notin Capital \cup Small \cup {"-"} THEN name
    ELSE CHOOSE c \in [1..Len(name) -> Capital \cup Small \cup {"-"}] :
            \A i \in 1..Len(name) :
                /\ SameLetter(c[i], name[i])
                /\ IF i = 1 \/ name[i - 1] = "-" THEN c[i] \notin Small ELSE c[i] \notin Capital
\* the multimap holding, for the Name: Value lines among lines, the value
\* V(value) under the key K(name), the values of one key in line order
ExpectedHeaders(lines, K(_), V(_)) ==
    LET hl == SelectSeq(lines, HasSeparator)
        ValuesOf(key) ==
            LET HasKey(l) == K(NameValue(l)[1]) = key
                ms == SelectSeq(hl, HasKey)
            IN  [i \in 1..Len(ms) |-> V(NameValue(ms[i])[2])]
    IN  [key \in {K(NameValue(hl[i])[1]) : i \in 1..Len(hl)} |-> ValuesOf(key)]
\* the lines of a byte stream, as byte-at-a-time delivery yields them
RECURSIVE AllLines(_)
AllLines(b) ==
    IF \A i \in 1..Len(b) : b[i] # LF THEN <<>>
    ELSE LET n == CHOOSE i \in 1..Len(b) : b[i] = LF /\ \A j \in 1..(i - 1) : b[j] # LF
         IN  <<SubSeq(b, 1, n)>> \o AllLines(SubSeq(b, n + 1, Len(b)))
IsPrefix(p, q) == Len(p) <= Len(q) /\ p = SubSeq(q, 1, Len(p))

\* C4: when the handshake reads a line without the separator ": " before
\* the terminator, it writes exactly "JSONRPS/1.0 400 Bad Request\r\n\r\n",
\* closes the connection, returns no session, and reads and writes nothing
\* further on the connection.
C4_MalformedHeader ==
    (\E i \in 1..Len(hsLines) : Malformed(hsLines[i])) =>
        /\ hsRet = "bad"
        /\ hsOut = <<"JSONRPS/1.0", SP, "400", SP, "Bad Request", CR, LF, CR, LF>>
        /\ hsClosed
        /\ \A i \in 1..(Len(hsLines) - 1) : ~Malformed(hsLines[i])
        /\ hsBuf = <<>>
        /\ hsReqs = <<>>
C4_Witness ==
    /\ hsRet = "bad"
    /\ Len(hsLines) = 2
    /\ Last(hsLines) = <<"a", ":", "x", CR, LF>>

\* C5: when the handshake reaches the terminator without meeting a
\* malformed line, it returns a session and no error and has written
\* nothing; for the terminator alone the session's headers are empty.
C5_NoSuccessStatus ==
    (hsLines # <<>> /\ Last(hsLines) = <<LF>>) =>
        /\ hsRet = "ok"
        /\ hsOut = <<>>
        /\ ~hsClosed
        /\ Len(hsLines) = 1 => DOMAIN hsHeaders = {}
C5_Witness ==
    /\ hsRet = "ok"
    /\ Len(hsLines) > 1
    /\ hsReqs # <<>>

C7_NoByteLost == IsPrefix(hsLines \o hsReqs, AllLines(hsInput))

\* C8: when the transport fails before the terminator was read (the
\* handshake has returned, and the last line it read, if any, is a header
\* line), the handshake returns a session holding exactly the headers of the
\* complete lines read before, together with the error, and has written
\* nothing.
C8_ReadErrorKeepsHeaders ==
    (hsRet \notin {"unused", "reading"} /\ (hsLines = <<>> \/ HasSeparator(Last(hsLines)))) =>
        /\ hsRet = "err"
        /\ hsHeaders = ExpectedHeaders(hsLines, CanonicalName, Trimmed)
        /\ hsOut = <<>>
        /\ ~hsClosed
C8_Witness ==
    /\ hsRet = "err"
    /\ Len(hsLines) = 2
    /\ hsIn # <<>>

\* ------------------------------------------------------ pipeline: registry
\* the dispatcher takes a request whose method name is not in the registry
DropsRequest(s) ==
    /\ dlog'[s] # dlog[s]
    /\ methods[Head(reqQueue[s]).method] = "none"
\* the ids of the requests for which the lookup found a Method
FoundIds(s) == {dlog[s][i].id : i \in {j \in 1..Len(dlog[s]) : dlog[s][j].m # "none"}}
\* the ids that invocations, queued responses and written responses carry
AnsweredIds(s) ==
    {v.req.id : v \in inv[s]}
    \cup {respQueue[s][i].id : i \in {j \in 1..Len(respQueue[s]) : respQueue[s][j].k = "resp"}}
    \cup {written[s][i].id : i \in {j \in 1..Len(written[s]) : written[s][j].k = "json"}}

\* C9: SetMethod(name, nil) leaves no method under that name and leaves the
\* other names as they were, the registry changes only by SetMethod, and a
\* request for a name that is not registered starts no invocation and puts
\* no response on the response queue or on the connection.
C9_RemovedMethod ==
    [][ /\ \A n \in MethodNames :
              SetMethod(n, "none") =>
                  /\ methods'[n] = "none"
                  /\ \A o \in MethodNames \ {n} : methods'[o] = methods[o]
        /\ methods' # methods =>
              \E n \in MethodNames : \E m \in MethodArgs(n) : SetMethod(n, m)
        /\ \A s \in SpecSessions :
              DropsRequest(s) =>
                  /\ inv'[s] = inv[s]
                  /\ methodsWG'[s] = methodsWG[s]
                  /\ respQueue'[s] = respQueue[s]
                  /\ written'[s] = written[s]
      ]_vars
C9_Witness ==
    \E s \in SpecSessions :
        /\ Len(dlog[s]) = 2
        /\ dlog[s][1].method = dlog[s][2].method
        /\ dlog[s][1].m # "none"
        /\ dlog[s][2].m = "none"
        /\ \E n \in MethodNames : n # dlog[s][1].method /\ methods[n] # "none"

\* C10: a request whose method is not registered when the dispatcher looks
\* it up starts no invocation, gets no response and does not trigger
\* session-done, and the dispatcher goes on with its loop, so that requests
\* read after it are still dispatched.
C10_UnknownMethod ==
    /\ [](\A s \in SpecSessions : AnsweredIds(s) \subseteq FoundIds(s))
    /\ [][ \A s \in SpecSessions :
              DropsRequest(s) =>
                  /\ inv'[s] = inv[s]
                  /\ respQueue'[s] = respQueue[s]
                  /\ sessionDone'[s] = sessionDone[s]
                  /\ sessionDoneOnce'[s] = sessionDoneOnce[s]
                  /\ panicked' = panicked
                  /\ dpc'[s] = "select"
       ]_vars
C10_Witness ==
    \E s \in SpecSessions :
        /\ Len(dlog[s]) = 2
        /\ dlog[s][1].m = "none"
        /\ dlog[s][2].m # "none"
        /\ written[s] # <<>>

\* ------------------------------------------------- invocations: expectations
\* the ids of the requests whose Method returned an error
FailedIds(s) == {ilog[s][i].id : i \in {j \in 1..Len(ilog[s]) : ilog[s][j].out = "error"}}
\* the ids that queued responses and written responses carry
ResponseIds(s) ==
    {respQueue[s][i].id : i \in {j \in 1..Len(respQueue[s]) : respQueue[s][j].k = "resp"}}
    \cup {written[s][i].id : i \in {j \in 1..Len(written[s]) : written[s][j].k = "json"}}
\* the step in which a Method returns an error
MethodFails(s) ==
    /\ Len(ilog'[s]) = Len(ilog[s]) + 1
    /\ Last(ilog'[s]).out = "error"
IsEnqueued(e) == e.out = "enqueued"
\* the lines of the responses put on respQueue, in the order they were put
EnqueuedLines(s) ==
    LET e == SelectSeq(ilog[s], IsEnqueued)
    IN  [i \in 1..Len(e) |-> MarshalResponse(e[i].resp)]
QueuedLines(s) == [i \in 1..Len(respQueue[s]) |-> MarshalResponse(respQueue[s][i])]

\* C11: when a Method returns an error, no response for that request is
\* ever queued or written, session-done is not triggered, nothing panics,
\* and the reader, the dispatcher and the writer stay where they were, so
\* that later requests are still dispatched and answered.
C11_MethodFailure ==
    /\ [](\A s \in SpecSessions : FailedIds(s) \cap ResponseIds(s) = {})
    /\ [][ \A s \in SpecSessions :
              MethodFails(s) =>
                  /\ sessionDone'[s] = sessionDone[s]
                  /\ sessionDoneOnce'[s] = sessionDoneOnce[s]
                  /\ panicked' = panicked
                  /\ rpc'[s] = rpc[s]
                  /\ dpc'[s] = dpc[s]
                  /\ wpc'[s] = wpc[s]
                  /\ reqQueue'[s] = reqQueue[s]
                  /\ respQueue'[s] = respQueue[s]
                  /\ written'[s] = written[s]
       ]_vars
C11_Witness ==
    \E s \in SpecSessions :
        /\ Live
        /\ ~sessionDone[s]
        /\ ilog[s] # <<>>
        /\ ilog[s][1] = [id |-> 1, out |-> "error", resp |-> NilResp]
        /\ Responses(written[s]) = <<[k |-> "json", id |-> 2, result |-> <<"p", 2>>]>>

\* C12: the responses are written in the order in which the invocations put
\* them on the response queue, each as one whole line: what was written is
\* a prefix of the lines of the queued responses in queueing order, and as
\* long as the writer runs, the written lines followed by the lines still
\* queued are exactly those lines; this order need not be the order of the
\* requests.
C12_WriteOrder ==
    \A s \in SpecSessions :
        /\ IsPrefix(Responses(written[s]), EnqueuedLines(s))
        /\ wpc[s] = "select" =>
               Responses(written[s]) \o QueuedLines(s) = EnqueuedLines(s)
C12_Witness ==
    \E s \in SpecSessions :
        /\ Responses(written[s]) = <<[k |-> "json", id |-> 2, result |-> <<"p", 2>>]>>
        /\ \E v \in inv[s] : v.req.id = 1 /\ v.st = "call"

\* ------------------------------------------------------ router: expectations
\* the handlers were probed in sequence order, each answering for itself
ProbedInOrder ==
    \A k \in 1..Len(rtProbed) :
        /\ rtProbed[k].i = k
        /\ rtProbed[k].res = CanHandleSession(rtHandlers[k], rtHeaders)
\* the probes stopped at the first handler that answered true, or went
\* through the whole sequence when none did
ProbesStopAtFirstMatch ==
    /\ \A k \in 1..(Len(rtProbed) - 1) : ~rtProbed[k].res
    /\ (rtProbed = <<>> \/ ~Last(rtProbed).res) => Len(rtProbed) = Len(rtHandlers)
SomeHandlerCan == \E i \in 1..Len(rtHandlers) : CanHandleSession(rtHandlers[i], rtHeaders)
\* the session's Accept header is the token of the default handler
AcceptsDefaultMimeType ==
    /\ ~rtHeaders.isNil
    /\ "Accept" \in DOMAIN rtHeaders.m
    /\ rtHeaders.m["Accept"] # <<>>
    /\ rtHeaders.m["Accept"][1] = "application/json+rps"

\* C13: ServerSessionRouter.HandleSession probes the handlers in sequence
\* order and calls HandleSession once, on the first handler whose probe
\* succeeds; no other handler is called and none after it is probed; when
\* no probe succeeds (or the router is empty) no handler is called and
\* nothing is written on the connection, which stays open.
C13_RouterHandleSession ==
    /\ Len(rtHandled) <= 1
    /\ (rtOp = "done" /\ rtRet = "returned") =>
          /\ ProbedInOrder
          /\ ProbesStopAtFirstMatch
          /\ IF SomeHandlerCan
             THEN rtHandled = <<Len(rtProbed)>> /\ Last(rtProbed).res
             ELSE rtHandled = <<>> /\ rtOut = <<>> /\ ~rtClosed
C13_Witness ==
    /\ rtOp = "done"
    /\ rtRet = "returned"
    /\ Len(rtHandlers) = 3
    /\ rtHandled = <<2>>
    /\ CanHandleSession(rtHandlers[3], rtHeaders)

\* C14: ServerSessionRouter.CanHandleSession returns true exactly when some
\* handler of the sequence can handle the session (false for the empty
\* router), probing in sequence order and no further than the first handler
\* that answers true; it calls no handler's HandleSession.
C14_RouterCanHandleSession ==
    (rtOp = "done" /\ rtRet # "returned") =>
        /\ rtRet = (IF SomeHandlerCan THEN "true" ELSE "false")
        /\ ProbedInOrder
        /\ ProbesStopAtFirstMatch
        /\ rtHandled = <<>>
        /\ rtOut = <<>>
C14_Witness ==
    /\ rtOp = "done"
    /\ rtRet = "true"
    /\ Len(rtHandlers) = 3
    /\ Len(rtProbed) = 2

\* C15: defaultServer.CanHandleSession answers true exactly when the value
\* of the session's Accept header is "application/json+rps", and false for
\* any other value, for an empty value and when the header is absent.
C15_DefaultCanHandleSession ==
    \A k \in 1..Len(rtProbed) :
        rtHandlers[rtProbed[k].i].kind = "default" =>
            (rtProbed[k].res <=> AcceptsDefaultMimeType)
C15_Witness ==
    \E k \in 1..Len(rtProbed) :
        /\ rtHandlers[rtProbed[k].i].kind = "default"
        /\ rtProbed[k].res

\* C16: NotImplementedServerSessionHandler.CanHandleSession answers true for
\* every session (also one with nil headers) and every handler value, and
\* its HandleSession writes exactly "JSONRPS/1.0 501 Not Implemented\r\n\r\n"
\* on the session's connection and closes the connection.
C16_NotImplemented ==
    /\ \A k \in 1..Len(rtProbed) :
          rtHandlers[rtProbed[k].i].kind = "notimpl" => rtProbed[k].res
    /\ \A k \in 1..Len(rtHandled) :
          rtHandlers[rtHandled[k]].kind = "notimpl" =>
              /\ rtOut = <<"JSONRPS/1.0", " ", "501", " ", "Not Implemented",
                           "\r", "\n", "\r", "\n">>
              /\ rtClosed
C16_Witness ==
    /\ rtHeaders.isNil
    /\ rtHandled # <<>>
    /\ rtHandlers[rtHandled[1]] = [kind |-> "notimpl", v |-> 42]
    /\ rtClosed

\* ----------------------------------------------------- Session: expectations
\* the (key, index) pairs of the values a header map holds
ValuePairs(h) == {q \in (DOMAIN h) \X (1..5) : q[2] <= Len(h[q[1]])}
\* the status line expected for the codes used
ExpectedStatusLine(code) ==
    IF code = 200
    THEN <<"JSONRPS/1.0", " ", "200", " ", "OK", "\r", "\n">>
    ELSE <<"JSONRPS/1.0", " ", "299", " ", "", "\r", "\n">>
\* b is made of one line "key: value\r\n" for every value of h, each once
IsHeaderLinesOf(b, h) ==
    LET n == Cardinality(ValuePairs(h))
    IN  /\ Len(b) = 6 * n
        /\ \E f \in [1..n -> ValuePairs(h)] :
              /\ \A i, j \in 1..n : i # j => f[i] # f[j]
              /\ \A j \in 1..n :
                    SubSeq(b, 6 * j - 5, 6 * j) =
                        <<f[j][1], ":", " ", h[f[j][1]][f[j][2]], "\r", "\n">>

\* C17: the header-flushed latch only goes from unset to set; a Write puts
\* the blank line "\r\n" before its bytes exactly when it is the first
\* WriteHeader or Write call on the session, every later Write puts its
\* bytes alone, and Write reports the number of payload bytes, the blank
\* line not counted.  (Stated for calls made while the connection is open.)
C17_HeaderSentLatch ==
    /\ [][seHeaderSent => seHeaderSent']_vars
    /\ [](\A k \in 1..Len(seLog) :
            /\ seLog[k].sent = (k > 1)
            /\ (seLog[k].op = "Write" /\ seLog[k].open) =>
                  /\ seLog[k].wrote =
                        (IF k = 1 THEN <<"\r", "\n">> ELSE <<>>) \o seLog[k].p
                  /\ seLog[k].n = Len(seLog[k].p))
C17_Witness ==
    /\ Len(seLog) = 3
    /\ \A k \in 1..3 : seLog[k].op = "Write" /\ seLog[k].open
    /\ seLog[1].wrote = <<"\r", "\n", "x">>
    /\ seLog[2].wrote = <<"x", "\n", "y">>

\* C18: WriteHeader(code) writes the status line "JSONRPS/1.0 <code>
\* <reason phrase>\r\n", one line "Name: Value\r\n" for every value of every
\* header of the session (each exactly once), then the blank line "\r\n",
\* and sets the latch; a repeated call writes a complete header section
\* again, from the headers as they are at that call.  (Stated for calls
\* made while the connection is open.)
C18_WriteHeader ==
    \A k \in 1..Len(seLog) :
        (seLog[k].op = "WriteHeader" /\ seLog[k].open) =>
            LET w == seLog[k].wrote IN
            /\ Len(w) >= 9
            /\ SubSeq(w, 1, 7) = ExpectedStatusLine(seLog[k].code)
            /\ IsHeaderLinesOf(SubSeq(w, 8, Len(w) - 2), seLog[k].headers)
            /\ SubSeq(w, Len(w) - 1, Len(w)) = <<"\r", "\n">>
            /\ IF k < Len(seLog) THEN seLog[k + 1].sent ELSE seHeaderSent
C18_Witness ==
    /\ Len(seLog) >= 2
    /\ seLog[1].op = "WriteHeader" /\ seLog[1].open
    /\ seLog[2].op = "WriteHeader" /\ seLog[2].open
    /\ seLog[1].headers # seLog[2].headers
    /\ \E key \in DOMAIN seLog[2].headers : Len(seLog[2].headers[key]) = 2

\* -------------------------------------------- written and read back: expectations
\* equal up to the widening of a number to float64
SameAny(a, b) == a = b \/ (a.t = "int" /\ b = Float64Any(a.v))
\* equal as JSON documents: the same tokens apart from insignificant white space
SameDocument(a, b) == Compact(a) = Compact(b)
SameError(e, f) ==
    IF e.k = "nil" \/ f.k = "nil" THEN e.k = f.k
    ELSE e.code = f.code /\ e.message = f.message /\ SameAny(e.data, f.data)
SameMessage(m, g) ==
    /\ m.k = g.k
    /\ m.k = "request" =>
        /\ m.version = g.version /\ m.method = g.method
        /\ SameDocument(m.params, g.params) /\ SameAny(m.id, g.id)
    /\ m.k = "response" =>
        /\ m.version = g.version /\ SameAny(m.id, g.id)
        /\ SameDocument(m.result, g.result) /\ SameError(m.error, g.error)
        /\ m.method = g.method /\ SameDocument(m.params, g.params)
\* the k-th item is a message that Marshal accepts
IsWrittenMessage(k) ==
    /\ k \in 1..Len(wiItems)
    /\ wiItems[k].k = "message"
    /\ ~MarshalFails(wiItems[k].m)

\* C19: a request, or a response, whose raw fields hold valid JSON is
\* handed to Write as one line: bytes without a newline followed by one
\* newline. When the message is the first thing written on the session, the
\* first ReadRequest, or ReadResponse, on the bytes behind the header
\* terminator returns without an error a message with the same version,
\* method and error, the same id up to the widening of numbers to float64,
\* and the same params and result as JSON documents; and so does every read
\* call that gets the line of a written message.
C19_RoundTrip ==
    /\ \A k \in 1..Len(seLog) :
        IsWrittenMessage(k) =>
            /\ seLog[k].op = "Write"
            /\ FirstLF(seLog[k].p) = Len(seLog[k].p)
            /\ seLog[k].wrote = (IF seLog[k].sent THEN <<>> ELSE <<CR, LF>>) \o seLog[k].p
    /\ (IsWrittenMessage(1) /\ wiReads # <<>>) =>
        /\ wiReads[1].err = "none"
        /\ SameMessage(wiItems[1].m, wiReads[1].msg)
    /\ \A j \in 1..Len(wiReads) : \A k \in 1..Len(wiItems) :
        (IsWrittenMessage(k) /\ k <= Len(seLog) /\ wiReads[j].line = seLog[k].p) =>
            /\ wiReads[j].err = "none"
            /\ SameMessage(wiItems[k].m, wiReads[j].msg)

\* a request with white space in its params and an int id was written, then
\* a request without params and id, and both were read back
C19_Witness ==
    /\ wiKind = "request"
    /\ Len(wiItems) = 2 /\ Len(wiReads) >= 2
    /\ IsWrittenMessage(1) /\ IsWrittenMessage(2)
    /\ wiItems[1].m.id.t = "int"
    /\ wiItems[1].m.params # Compact(wiItems[1].m.params)
    /\ wiItems[2].m.params = <<>> /\ wiItems[2].m.id.t = "nil"
    /\ wiReads[1].err = "none" /\ wiReads[2].err = "none"
    /\ wiReads[2].msg = wiItems[2].m

\* C20: every ReadRequest / ReadResponse call that gets a line consumes
\* exactly one line of the stream, so the j-th such call returns for the
\* j-th line; when the line is not a valid JSON document (an empty line
\* included) the call returns a decode error; and a call that meets the end
\* of the stream before any byte returns the end-of-stream error and no
\* message.
C20_OneLinePerCall ==
    \A j \in 1..Len(wiReads) :
        /\ wiReads[j].err # "EOF" =>
            /\ j <= Len(AllLines(WireStream))
            /\ wiReads[j].line = AllLines(WireStream)[j]
        /\ (wiReads[j].err # "EOF" /\ ~Valid(wiReads[j].line)) => wiReads[j].err = "decode"
        /\ (wiReads[j].err = "EOF" /\ wiReads[j].line = <<>>) => wiReads[j].msg = NilMsg

\* --------------------------------------------- client handshake: expectations
\* the call has got past its writes
ClientWrote == clRet \in {"reading", "ok", "invalid"}
\* the headers a sequence of lines read from the peer carries
RECURSIVE ClientHeadersOf(_)
ClientHeadersOf(lines) ==
    IF lines = <<>> THEN EmptyHeader
    ELSE LET t == Trim(Last(lines), {CR, LF, SP})
             h == ClientHeadersOf(SubSeq(lines, 1, Len(lines) - 1))
         IN  IF Len(SplitN(t)) = 2
             THEN HeaderAdd(h, SplitN(t)[1], TrimSpace(SplitN(t)[2]))
             ELSE h
\* a status line "<signature> <code> <reason>\r\n", and its signature
IsStatusLine(line) == Len(line) >= 4 /\ line[2] = SP /\ line[3] = "200" /\ line[4] = SP
SignatureOf(line) == <<line[1]>>

\* C21: what InitializeClientSession writes on the connection is, for some
\* order of the names, one line "Name: Value\r\n" for every value of the
\* caller's headers followed by the terminator "\r\n", and nothing else.
C21_ClientWritesHeaderBlock ==
    ClientWrote => \E o \in KeyOrders(clSent) : clOut = WriteClientHeader(clSent, o)

\* C22: when InitializeClientSession has returned a session, its remote
\* headers are the headers of the lines read from the peer, and the header
\* map the caller supplied holds what it held at the call.
C22_RemoteHeadersStored ==
    clRet = "ok" =>
        /\ clRemote = ClientHeadersOf(clLines)
        /\ clLocal = clSent

\* C23: when the first line of the peer's reply is a status line with a
\* signature other than "JSONRPS/1.0", InitializeClientSession closes the
\* connection and fails with the invalid-signature error, and reads no
\* further line.
C23_InvalidSignatureCloses ==
    (clLines # <<>> /\ IsStatusLine(clLines[1])
        /\ SignatureOf(clLines[1]) # DefaultProtocolSignature) =>
            /\ clRet = "invalid"
            /\ clClosed
            /\ Len(clLines) = 1

\* ------------------------------------------------- pipeline: signals and queues
\* C24: the server-closing signal is fired by the first Close() and no
\* Close() call, whatever their number, panics.
C24_CloseFiresOnce == panicked # "Close: close of closed channel"

\* C25: in a HandleSession call session-done, once closed, stays closed;
\* it is never closed a second time, also when the reader's read failure
\* and the writer's write failure both trigger it; and HandleSession has
\* not returned while session-done is open.
C25_SessionDoneOnce ==
    /\ [][\A s \in SpecSessions : sessionDone[s] => sessionDone'[s]]_vars
    /\ [](panicked # "cleanUp: close of closed channel")
    /\ [](\A s \in SpecSessions : hs[s] = "returned" => sessionDone[s])

\* the reader failed on a read and the writer on a write, and HandleSession
\* has returned
C25_Witness ==
    \E s \in SpecSessions :
        /\ ReadFailed(s) /\ WriteFailed(s)
        /\ sessionDone[s] /\ hs[s] = "returned"
        /\ Live

\* C26: the response queue is closed only once the dispatcher has left its
\* loop and no invocation is in flight: while it is closed the dispatcher
\* is done, the in-flight count is zero and there is no invocation, so that
\* none is started and none sends after the close; no send on the closed
\* queue and no second close ever happens.
C26_RespQueueClosedLast ==
    /\ \A s \in SpecSessions :
        respClosed[s] => (dpc[s] = "done" /\ methodsWG[s] = 0 /\ inv[s] = {})
    /\ panicked \notin {"invocation: send on closed channel",
                        "dispatcher: close of closed channel"}

\* the response queue was closed after an invocation had put its response
\* on it
C26_Witness ==
    \E s \in SpecSessions :
        /\ respClosed[s]
        /\ \E i \in 1..Len(ilog[s]) : ilog[s][i].out = "enqueued"
        /\ Live

\* C27: when the reader has stopped on a read failure of the connection,
\* the server is not closing and no write has failed, a dispatcher that has
\* left its loop has left it on the closed and drained request queue: every
\* request the reader enqueued was dequeued before.
C27_DispatcherDrains ==
    \A s \in SpecSessions :
        ( /\ ReadFailed(s) /\ ~closed /\ ~WriteFailed(s) /\ Live
          /\ dpc[s] \in {"wait", "done"} )
        => (reqClosed[s] /\ reqQueue[s] = <<>>)

\* the ids of the requests dequeued so far increase
DispatchedInOrder(s) ==
    \A i, j \in 1..Len(dlog[s]) : i < j => dlog[s][i].id < dlog[s][j].id
\* the step in which the dispatcher takes a request off the queue and looks
\* its method up
Dequeues(s) == Len(dlog'[s]) = Len(dlog[s]) + 1

C29_LookupUnderLock ==
    ~(methodsLock /\ panicked = "dispatcher: concurrent map read and map write")
\* an invocation of session s whose Method has returned a response and that
\* has not finished yet
Sending(s, i) == \E v \in inv[s] : v.req.id = i /\ v.st = "send"
Running(s, i) == \E v \in inv[s] : v.req.id = i

\* C30: every invocation whose Method has returned a response finishes (it
\* enqueues the response, or abandons it once sessionDone or h.closed has
\* fired); it does not stay blocked forever on a full respQueue after the
\* writer has stopped
C30_InvocationFinishes ==
    \A s \in SpecSessions : \A i \in 1..MaxBurst :
        Sending(s, i) ~> (~Running(s, i) \/ ~Live)
\* an invocation is blocked on a full respQueue and the writer has stopped
C30_Witness ==
    \E s \in SpecSessions : \E i \in 1..MaxBurst :
        /\ Live
        /\ Sending(s, i)
        /\ Len(respQueue[s]) = RespQueueCap
        /\ wpc[s] \in {"exited", "failed"}

\* ------------------------------------------------- pipeline: bounded queues
\* the reader of session s takes a line off the connection in this step
ReaderTakes(s) == Len(inbuf'[s]) < Len(inbuf[s])
\* the request the reader decodes from the line it takes
TakenRequest(s) == DecodeRequest(Head(inbuf[s]))

\* C31: reqQueue and respQueue never hold more than their capacity; while
\* reqQueue is full and the reader holds a request for it, the reader takes
\* no further line off the connection; a request the reader decoded is
\* enqueued at once or held until it is enqueued, never dropped.
C31_BoundedQueues ==
    /\ [](\A s \in SpecSessions :
            /\ Len(reqQueue[s]) <= QueueCap
            /\ Len(respQueue[s]) <= RespQueueCap)
    /\ [][\A s \in SpecSessions :
            /\ rpc[s] = "enqueue" => ~ReaderTakes(s)
            /\ (ReaderTakes(s) /\ DecodeOK(Head(inbuf[s]))) =>
                   \/ reqQueue'[s] = Append(reqQueue[s], TakenRequest(s))
                   \/ /\ Len(reqQueue[s]) = QueueCap
                      /\ rpc'[s] = "enqueue"
                      /\ rreq'[s] = TakenRequest(s)
            /\ (rpc[s] = "enqueue" /\ rpc'[s] # "enqueue") =>
                   reqQueue'[s] = Append(reqQueue[s], rreq[s])]_vars
\* the reader holds a decoded request for a full reqQueue while a further
\* line waits on the connection
C31_Witness ==
    \E s \in SpecSessions :
        /\ rpc[s] = "enqueue"
        /\ rreq[s].k = "req"
        /\ Len(reqQueue[s]) = QueueCap
        /\ inbuf[s] # <<>>

\* ------------------------------------------- pipeline: a Method that hangs
\* an invocation of session s is inside a Method that has not returned
Hung(s) == \E v \in inv[s] : v.st = "call" /\ v.m = "other"

\* C32: an invocation whose Method never returns blocks neither the
\* dispatcher nor the writer nor HandleSession: while it hangs, a dispatcher
\* in its loop with a request queued goes on (it takes the request or leaves
\* on a signal), a writer in its loop with a response queued goes on (it
\* writes the response or leaves on a signal), and once the connection is
\* closed HandleSession returns, unless the server is closing.
C32_HungMethod ==
    \A s \in SpecSessions :
        /\ (Hung(s) /\ dpc[s] = "select" /\ reqQueue[s] # <<>>)
               ~> (reqQueue[s] = <<>> \/ dpc[s] # "select" \/ ~Live)
        /\ (Hung(s) /\ wpc[s] = "select" /\ respQueue[s] # <<>>)
               ~> (respQueue[s] = <<>> \/ wpc[s] # "select" \/ ~Live)
        /\ (Hung(s) /\ conn[s] = "closed" /\ hs[s] = "running")
               ~> (hs[s] = "returned" \/ closed \/ ~Live)
\* the Method of request 1 hangs, the response to request 2 was written and
\* HandleSession has returned after the connection was closed
C32_Witness ==
    \E s \in SpecSessions :
        /\ Live
        /\ ~closed
        /\ \E v \in inv[s] : v.st = "call" /\ v.m = "other" /\ v.req.id = 1
        /\ Responses(written[s]) = <<[k |-> "json", id |-> 2, result |-> <<"p", 2>>]>>
        /\ conn[s] = "closed"
        /\ hs[s] = "returned"

\* ------------------------------------------------ pipeline: two sessions
\* the ids of the requests and responses that session s holds anywhere: in
\* its queues, in its invocations, in the reader's hand and on its connection
HeldIds(s) ==
    {reqQueue[s][i].id : i \in {j \in 1..Len(reqQueue[s]) : reqQueue[s][j].k = "req"}}
    \cup {rreq[s].id : x \in {y \in {rreq[s]} : y.k = "req"}}
    \cup AnsweredIds(s)
\* a read or a write of session s has failed
OwnFailure(s) == rpc[s] \in {"readerr", "decodeerr"} \/ wpc[s] = "failed"
\* sessionDone of session s is closed in this step
SessionDoneFires(s) == ~sessionDone[s] /\ sessionDone'[s]

\* C33: with two sessions on one server, whatever a session queues, invokes
\* or writes carries the id of a request its own reader read (session s is
\* sent the request with id s), so every response goes to the connection of
\* its request; sessionDone of a session is closed only by a failure of its
\* own connection, HandleSession of a session returns only on its own
\* sessionDone, and the step that closes sessionDone of one session changes
\* nothing of the other session.
C33_SessionsIsolated ==
    /\ [](\A s \in Sessions :
            /\ HeldIds(s) \subseteq {s}
            /\ sessionDone[s] => OwnFailure(s)
            /\ hs[s] = "returned" => sessionDone[s])
    /\ [][\A s \in Sessions : \A t \in Sessions \ {s} :
            SessionDoneFires(s) =>
                /\ hs'[t] = hs[t] /\ conn'[t] = conn[t]
                /\ rpc'[t] = rpc[t] /\ dpc'[t] = dpc[t] /\ wpc'[t] = wpc[t]
                /\ sessionDone'[t] = sessionDone[t]
                /\ reqQueue'[t] = reqQueue[t] /\ respQueue'[t] = respQueue[t]
                /\ inv'[t] = inv[t] /\ written'[t] = written[t]]_vars
\* session 1 answered its request, then its connection failed and its
\* HandleSession returned; session 2 answered its own request and runs on
C33_Witness ==
    /\ Live
    /\ ~closed
    /\ Responses(written[1]) = <<[k |-> "json", id |-> 1, result |-> <<"p", 1>>]>>
    /\ Responses(written[2]) = <<[k |-> "json", id |-> 2, result |-> <<"p", 2>>]>>
    /\ sessionDone[1] /\ hs[1] = "returned"
    /\ ~sessionDone[2] /\ hs[2] = "running"
    /\ rpc[2] = "read" /\ dpc[2] = "select" /\ wpc[2] = "select"

\* ------------------------------------------------ pipeline: what is written
\* the responses that Methods of session s returned (not nil) and that were
\* put on respQueue, as the lines WriteResponse makes of them
ReturnedLines(s) ==
    {MarshalResponse(ilog[s][i].resp) :
        i \in {j \in 1..Len(ilog[s]) : ilog[s][j].out = "enqueued" /\ ilog[s][j].resp.k = "resp"}}

\* C34: every line written on a session's connection is the serialization
\* of a non-nil response that a registered Method returned for a request of
\* that session, each written at most once; the only other thing written is
\* the blank header terminator, once, before the first response; a Method
\* that returns neither a response nor an error gets nothing written.
C34_OnlyResponsesWritten ==
    \A s \in SpecSessions : \A i \in 1..Len(written[s]) :
        IF written[s][i].k = "terminator"
        THEN i = 1
        ELSE /\ written[s][i] \in ReturnedLines(s)
             /\ written[s][i].id \in FoundIds(s)
             /\ \A j \in 1..Len(written[s]) : written[s][j] = written[s][i] => j = i

\* ------------------------------------------------ pipeline: termination
\* every goroutine that HandleSession started for session s has returned
AllTerminated(s) ==
    /\ rpc[s] \in {"readerr", "decodeerr"}
    /\ dpc[s] = "done"
    /\ wpc[s] \in {"exited", "failed"}
    /\ inv[s] = {}

\* C35: once sessionDone of a session is closed and its connection is
\* closed, the reader, the dispatcher, the writer and every invocation whose
\* Method returns terminate (every Method of the burst returns); none stays
\* blocked forever on reqQueue or respQueue, whether the server was closed
\* or not.
C35_PipelineTerminates ==
    \A s \in SpecSessions :
        (sessionDone[s] /\ conn[s] = "closed") ~> (AllTerminated(s) \/ ~Live)

\* the ids of the requests whose invocations are running in session s
InvokedIds(s) == {v.req.id : v \in inv[s]}

\* C36: after HandleSession of a session has returned, nothing more is
\* written on the session's connection and no new invocation is started.
C36_QuietAfterReturn ==
    [][\A s \in SpecSessions :
          hs[s] = "returned" =>
              /\ written'[s] = written[s]
              /\ InvokedIds(s)' \subseteq InvokedIds(s)]_vars

\* ------------------------------------------- client and server handshakes
\* InitializeServerSession has returned after reading the client's bytes
\* with no transport failure
HelloAnswered == clRet = "sent" /\ hsRet \in {"ok", "bad"}

\* C37: the header block the client handshake writes is accepted by the
\* server handshake: InitializeServerSession, reading those bytes, returns a
\* session that holds the headers the client sent and writes nothing (no
\* 400 status); for the default client header the session's Accept value is
\* the MIME type the default server's CanHandleSession wants.
C37_ClientHeaderAccepted ==
    HelloAnswered =>
        /\ hsRet = "ok"
        /\ hsOut = <<>>
        /\ ~hsClosed
        /\ hsHeaders = clSent
        /\ <<"Accept">> \in DOMAIN clSent =>
               hsHeaders[<<"Accept">>][1] = <<DefaultMimeType>>

\* ------------------------------------------ server handshake: what returns
\* the named results of InitializeServerSession when it has returned: sess
\* is s after the loop and nil on the malformed-line return; err is what the
\* last ReadString returned
ReturnsSession == hsRet \in {"ok", "err"}
ReturnsError == hsRet = "err"

\* C38: whenever InitializeServerSession has returned, it returned a
\* session or an error, never neither.
C38_SessionOrError ==
    hsRet \in {"ok", "err", "bad"} => (ReturnsSession \/ ReturnsError)

\* ------------------------------------------------ pipeline: decode failures
\* C39: no nil request is ever queued for the dispatcher or held by the
\* reader for the queue, and the dispatcher's lookup never meets one: the
\* line null is a failure of ReadRequest.
C39_NoNilRequest ==
    /\ \A s \in SpecSessions :
          /\ \A i \in 1..Len(reqQueue[s]) : reqQueue[s][i].k # "nil"
          /\ rpc[s] = "enqueue" => rreq[s].k # "nil"
    /\ panicked # "dispatcher: nil pointer dereference"

\* the reader of session s takes a line that is not valid JSON in this step
TakesMalformed(s) == ReaderTakes(s) /\ ~DecodeOK(Head(inbuf[s]))

\* C40: a request line that fails to decode is handled like a read failure:
\* the reader closes sessionDone and stops without queueing anything, it
\* reads nothing more from the connection (so that no request behind the
\* malformed line is dispatched), and HandleSession returns.
C40_DecodeFailure ==
    /\ [][\A s \in SpecSessions :
            /\ TakesMalformed(s) =>
                   /\ sessionDone'[s]
                   /\ rpc'[s] = "decodeerr"
                   /\ reqClosed'[s]
                   /\ reqQueue'[s] = reqQueue[s]
            /\ rpc[s] = "decodeerr" =>
                   /\ rpc'[s] = "decodeerr"
                   /\ ~ReaderTakes(s)
                   /\ Len(reqQueue'[s]) <= Len(reqQueue[s])]_vars
    /\ \A s \in SpecSessions :
            rpc[s] = "decodeerr" ~> (hs[s] = "returned" \/ ~Live)
\* the reader stopped at a malformed line, a request behind that line is
\* still on the connection, nothing was dispatched, HandleSession returned
C40_Witness ==
    \E s \in SpecSessions :
        /\ Live
        /\ rpc[s] = "decodeerr"
        /\ hs[s] = "returned"
        /\ inbuf[s] # <<>> /\ Head(inbuf[s]).k = "req"
        /\ methods[Head(inbuf[s]).method] # "none"
        /\ dlog[s] = <<>>

====
